---- MODULE Spec2Model ----
(***************************************************************************)
(* Web Asset Server of the pyblish pipeline.                               *)
(*   web_server/db.py       persistence layer (SQLite tables, change log)  *)
(*   web_server/storage.py  storage layer (files under storage_root)       *)
(*   web_server/auth.py     API-key / role gate                            *)
(*   web_server/app.py      REST handlers                                  *)
(*   scripts/sync_agent.py  polling consumer of the change log             *)
(*                                                                         *)
(* Tables are sequences of rows in rowid order.  Timestamps (the ISO-8601  *)
(* strings of utcnow(), compared as strings by SQLite) are naturals >= 1   *)
(* in the same order; 0 stands for the empty string and -1 for None.       *)
(***************************************************************************)
EXTENDS Integers, Sequences, FiniteSets, TLC

VARIABLES
    db,          \* committed database: [assets, versions, files, comments, changes]
    clock,       \* last value utcnow() returned
    calls,       \* history: number of invocations of each persistence-layer call
    lastUpsert,  \* history: (asset_id, version) -> payload of the latest upsert_version
    last_since,  \* sync agent: the cursor of loop()
    pageLimit,   \* the limit the consumer's list_changes calls pass
    seen,        \* history: per change row, how many times the consumer received it
    pc,          \* per request thread: where its persistence-layer call stands
    txn,         \* per request thread: the call it is making
    lock,        \* the thread holding SQLite's write lock, or "none"
    wdb,         \* the lock holder's uncommitted view of the database
    committedTx, \* history: the calls whose transaction committed, in commit order
    integrityErrors, \* history: the calls whose INSERT raised sqlite3.IntegrityError
    keyfile,     \* api_keys.json: absent, unparsable, or a parsed JSON value
    fs,          \* files on disk: normalised absolute path -> bytes
    last,        \* the latest HTTP request and the response it got
    uploads,     \* history: the uploads answered 200 since the last delete request
    quota,       \* the number of requests the clients make in all
    call,        \* the latest persistence-layer call of SpecRows and its arguments
    before       \* the database as that call found it

vars == <<db, clock, calls, lastUpsert, last_since, pageLimit, seen,
          pc, txn, lock, wdb, committedTx, integrityErrors,
          keyfile, fs, last, uploads, quota,
          call, before>>

\* what the persistence-layer client leaves alone, and what the consumer does
consumerVars == <<last_since, pageLimit, seen>>
clientVars == <<calls, lastUpsert>>
txnVars == <<pc, txn, lock, wdb, committedTx, integrityErrors>>
apiVars == <<keyfile, fs, last, uploads, quota>>
rowsVars == <<call, before>>
othersOfSpec == <<consumerVars, txnVars, apiVars, rowsVars>>
othersOfPoll == <<clientVars, txnVars, apiVars, rowsVars>>
othersOfTxn == <<clientVars, consumerVars, apiVars, rowsVars>>
othersOfApi == <<clientVars, consumerVars, txnVars, rowsVars>>
othersOfRows == <<clientVars, consumerVars, txnVars, apiVars>>

(***************************************************************************)
(* Bounds of the model.                                                    *)
(***************************************************************************)
MaxCalls == 3
MaxClock == 4
MaxLimit == 2
MaxLog == 4
MaxSeen == 2
MaxTxns == 2
MaxReqs == 3
MaxAuthReqs == 2
MaxRowCalls == 2
MaxThreadedReqs == 3
MaxPackageReqs == 3
MaxReadReqs == 2
MaxVersionReqs == 2
MaxUploadReqs == 3

(***************************************************************************)
(* Values.                                                                 *)
(***************************************************************************)
NoneTs == -1
EmptyTs == 0
NoUpsert == [metadata |-> "none", thumbnail_path |-> "none"]

Min(a, b) == IF a < b THEN a ELSE b

\* utcnow(): the wall clock, read again at every call; it never runs backwards
\* and two reads may return the same value.
utcnow == clock .. Min(clock + 1, MaxClock)

\* json.dumps of a payload and json.loads of the stored text.
json_dumps(v) == <<"json", v>>
json_loads(s) == s[2]

(***************************************************************************)
(* SQL statements.                                                         *)
(***************************************************************************)
\* whether a row of (asset_id, version) is in the versions or files table
HasPair(table, asset_id, version) ==
    \E i \in DOMAIN table : table[i].asset_id = asset_id /\ table[i].version = version

\* DELETE FROM <table> WHERE asset_id=? AND version=?
DeletePair(table, asset_id, version) ==
    SelectSeq(table, LAMBDA r : ~(r.asset_id = asset_id /\ r.version = version))

\* DELETE FROM <table> WHERE asset_id=?
DeleteOfAsset(table, asset_id) ==
    SelectSeq(table, LAMBDA r : r.asset_id # asset_id)

\* INSERT OR IGNORE under UNIQUE(asset_id, version): the row is dropped when
\* a row with the same pair is present.
InsertAlwaysVersion(table, row) == Append(table, row)

InsertOrIgnoreVersion(table, row) ==
    IF HasPair(table, row.asset_id, row.version)
    THEN table
    ELSE Append(table, row)

\* INSERT INTO changes(change_type, asset_id, payload_json, created_at)
InsertChange(d, change_type, asset_id, payload, now) ==
    [d EXCEPT !.changes = Append(@, [change_type |-> change_type,
                                     asset_id    |-> asset_id,
                                     payload_json |-> json_dumps(payload),
                                     created_at  |-> now])]

EmptyDb == [assets |-> << >>, versions |-> << >>, files |-> << >>,
            comments |-> << >>, changes |-> << >>]

(***************************************************************************)
(* Persistence layer: each operator is one call, as one transaction.       *)
(***************************************************************************)
\* SELECT id FROM assets WHERE id=?  (fetchone)
ensure_asset_select(d, asset_id) == \E i \in DOMAIN d.assets : d.assets[i].id = asset_id

\* INSERT INTO assets raising IntegrityError: id is the PRIMARY KEY
ensure_asset_raises(d, found, asset_id) ==
    ~found /\ \E i \in DOMAIN d.assets : d.assets[i].id = asset_id

\* an INSERT OR REPLACE in place of the UPDATE: the whole row is rewritten
ensure_asset_write_replace(d, now, found, asset_id, name, family, description, tags) ==
    LET row == [id |-> asset_id, name |-> name, family |-> family,
                description |-> description, tags |-> tags, status |-> "published",
                created_at |-> now, updated_at |-> now]
        d1 == IF found
              THEN [d EXCEPT !.assets =
                       [i \in DOMAIN d.assets |->
                           IF d.assets[i].id = asset_id THEN row ELSE d.assets[i]]]
              ELSE [d EXCEPT !.assets = Append(@, row)]
    IN  InsertChange(d1, "asset_upsert", asset_id, [name |-> name, family |-> family], now)

\* the UPDATE or INSERT that follows the SELECT, and the change row
ensure_asset_write(d, now, found, asset_id, name, family, description, tags) ==
    LET d1 == IF found
              THEN [d EXCEPT !.assets =
                       [i \in DOMAIN d.assets |->
                           IF d.assets[i].id = asset_id
                           THEN [d.assets[i] EXCEPT !.name = name,
                                                    !.family = family,
                                                    !.updated_at = now]
                           ELSE d.assets[i]]]
              ELSE [d EXCEPT !.assets =
                       Append(@, [id |-> asset_id, name |-> name, family |-> family,
                                  description |-> description, tags |-> tags,
                                  status |-> "published",
                                  created_at |-> now, updated_at |-> now])]
    IN  InsertChange(d1, "asset_upsert", asset_id, [name |-> name, family |-> family], now)

ensure_asset(d, now, asset_id, name, family, description, tags) ==
    ensure_asset_write(d, now, ensure_asset_select(d, asset_id),
                       asset_id, name, family, description, tags)

upsert_version(d, now, asset_id, version, metadata, thumbnail_path) ==
    LET ins == InsertOrIgnoreVersion(d.versions,
                   [asset_id |-> asset_id, version |-> version,
                    metadata_json |-> json_dumps(metadata),
                    thumbnail_path |-> thumbnail_path, archived |-> 0,
                    created_at |-> now, updated_at |-> now])
        upd == [i \in DOMAIN ins |->
                   IF ins[i].asset_id = asset_id /\ ins[i].version = version
                   THEN [ins[i] EXCEPT !.metadata_json = json_dumps(metadata),
                                       !.thumbnail_path = thumbnail_path,
                                       !.updated_at = now]
                   ELSE ins[i]]
    IN  InsertChange([d EXCEPT !.versions = upd],
                     "version_upsert", asset_id, [version |-> version], now)

add_file(d, now, asset_id, version, filename, rel_path, fmt, size_bytes) ==
    InsertChange([d EXCEPT !.files =
                     Append(@, [asset_id |-> asset_id, version |-> version,
                                filename |-> filename, rel_path |-> rel_path,
                                format |-> fmt, size_bytes |-> size_bytes])],
                 "file_added", asset_id,
                 [version |-> version, filename |-> filename], now)

\* WHERE family = ? AND status = ?, a condition being left out when the
\* filter is None or empty: the rowids of the assets that pass
list_assets_where(d, filters) ==
    {i \in DOMAIN d.assets :
        /\ filters.family # "" => d.assets[i].family = filters.family
        /\ filters.status # "" => d.assets[i].status = filters.status}

\* a listing in rowid order, whatever updated_at says
OrderByRowid(d, rowids) ==
    {o \in [1 .. Cardinality(rowids) -> rowids] :
        \A j, k \in DOMAIN o : j < k => o[j] < o[k]}

\* ORDER BY updated_at DESC: the orders SQLite may return the rows in; rows of
\* equal updated_at come in an order SQL leaves open
OrderByUpdatedAtDesc(d, rowids) ==
    {o \in [1 .. Cardinality(rowids) -> rowids] :
        /\ \A j, k \in DOMAIN o : j # k => o[j] # o[k]
        /\ \A j, k \in DOMAIN o :
              j < k => d.assets[o[j]].updated_at >= d.assets[o[k]].updated_at}

\* LIMIT ? OFFSET ?: a negative OFFSET counts as 0, a negative LIMIT as no limit
LimitOffset(rows, limit, offset) ==
    LET rest == SubSeq(rows, (IF offset < 0 THEN 0 ELSE offset) + 1, Len(rows))
    IN  IF limit < 0 THEN rest ELSE SubSeq(rest, 1, Min(limit, Len(rest)))

\* list_assets(filters, limit, offset): the lists it may return
list_assets(d, filters, limit, offset) ==
    {LimitOffset([j \in DOMAIN o |-> d.assets[o[j]]], limit, offset) :
        o \in OrderByUpdatedAtDesc(d, list_assets_where(d, filters))}

\* a whitelist that lets every key through
allow_any_key == {"name", "description", "tags", "status", "id", "updated_at", "owner"}

allow == {"name", "description", "tags", "status"}

\* fields restricted to the whitelist
Whitelisted(fields) == [k \in DOMAIN fields \cap allow |-> fields[k]]

update_asset(d, now, asset_id, fields) ==
    LET sets == Whitelisted(fields)
    IN  IF DOMAIN sets = {}
        THEN d
        ELSE InsertChange(
                 [d EXCEPT !.assets =
                     [i \in DOMAIN d.assets |->
                         IF d.assets[i].id = asset_id
                         THEN [k \in DOMAIN d.assets[i] |->
                                  IF k \in DOMAIN sets THEN sets[k]
                                  ELSE IF k = "updated_at" THEN now
                                  ELSE d.assets[i][k]]
                         ELSE d.assets[i]]],
                 "asset_update", asset_id, sets, now)

\* an archive whose UPDATE names the asset only
archive_version_of_asset(d, now, asset_id, version) ==
    InsertChange(
        [d EXCEPT !.versions =
            [i \in DOMAIN d.versions |->
                IF d.versions[i].asset_id = asset_id
                THEN [d.versions[i] EXCEPT !.archived = 1, !.updated_at = now]
                ELSE d.versions[i]]],
        "version_archived", asset_id, [version |-> version], now)

archive_version(d, now, asset_id, version) ==
    InsertChange(
        [d EXCEPT !.versions =
            [i \in DOMAIN d.versions |->
                IF d.versions[i].asset_id = asset_id /\ d.versions[i].version = version
                THEN [d.versions[i] EXCEPT !.archived = 1, !.updated_at = now]
                ELSE d.versions[i]]],
        "version_archived", asset_id, [version |-> version], now)

\* delete_version writing its change row only when a version row was deleted
\* a delete that forgets the file rows
delete_version_keep_files(d, now, asset_id, version) ==
    InsertChange([d EXCEPT !.versions = DeletePair(@, asset_id, version)],
                 "version_deleted", asset_id, [version |-> version], now)

delete_version_log_if_found(d, now, asset_id, version) ==
    LET d1 == [d EXCEPT !.files = DeletePair(@, asset_id, version),
                        !.versions = DeletePair(@, asset_id, version)]
    IN  IF d1.versions = d.versions THEN d1
        ELSE InsertChange(d1, "version_deleted", asset_id, [version |-> version], now)

delete_version(d, now, asset_id, version) ==
    InsertChange(
        [d EXCEPT !.files = DeletePair(@, asset_id, version),
                  !.versions = DeletePair(@, asset_id, version)],
        "version_deleted", asset_id, [version |-> version], now)

\* a delete that also runs DELETE FROM changes WHERE asset_id=?
delete_asset_purge_log(d, now, asset_id) ==
    InsertChange(
        [d EXCEPT !.files = DeleteOfAsset(@, asset_id),
                  !.versions = DeleteOfAsset(@, asset_id),
                  !.comments = DeleteOfAsset(@, asset_id),
                  !.assets = SelectSeq(@, LAMBDA r : r.id # asset_id),
                  !.changes = DeleteOfAsset(@, asset_id)],
        "asset_deleted", asset_id, << >>, now)

\* a delete that forgets the comment rows
delete_asset_keep_comments(d, now, asset_id) ==
    InsertChange(
        [d EXCEPT !.files = DeleteOfAsset(@, asset_id),
                  !.versions = DeleteOfAsset(@, asset_id),
                  !.assets = SelectSeq(@, LAMBDA r : r.id # asset_id)],
        "asset_deleted", asset_id, << >>, now)

delete_asset(d, now, asset_id) ==
    InsertChange(
        [d EXCEPT !.files = DeleteOfAsset(@, asset_id),
                  !.versions = DeleteOfAsset(@, asset_id),
                  !.comments = DeleteOfAsset(@, asset_id),
                  !.assets = SelectSeq(@, LAMBDA r : r.id # asset_id)],
        "asset_deleted", asset_id, << >>, now)

add_comment(d, now, asset_id, author, body) ==
    InsertChange([d EXCEPT !.comments =
                     Append(@, [asset_id |-> asset_id, author |-> author,
                                body |-> body, created_at |-> now])],
                 "comment", asset_id, [author |-> author], now)

\* ORDER BY created_at ASC LIMIT ?: the first (at most) limit rowids of idx
\* in every order the query may return them: ascending created_at, rows with
\* equal created_at in any order (SQL leaves the order of ties open).
RECURSIVE OrderByCreatedAtLimit(_, _, _)
OrderByCreatedAtLimit(changes, idx, limit) ==
    IF idx = {} \/ limit <= 0 THEN {<< >>}
    ELSE UNION {{<<i>> \o p : p \in OrderByCreatedAtLimit(changes, idx \ {i}, limit - 1)} :
                  i \in {m \in idx : \A k \in idx :
                                         changes[m].created_at <= changes[k].created_at}}

\* list_changes that ignores since
list_changes_ids_all(changes, since_iso, limit) ==
    OrderByCreatedAtLimit(changes, DOMAIN changes, limit)

\* list_changes with created_at >= ? in place of created_at > ?
list_changes_ids_from(changes, since_iso, limit) ==
    OrderByCreatedAtLimit(changes,
        IF since_iso # NoneTs /\ since_iso # EmptyTs
        THEN {i \in DOMAIN changes : changes[i].created_at >= since_iso}
        ELSE DOMAIN changes,
        limit)

\* list_changes as the rowids it returns: every result the query may give.
list_changes_ids(changes, since_iso, limit) ==
    OrderByCreatedAtLimit(changes,
        IF since_iso # NoneTs /\ since_iso # EmptyTs
        THEN {i \in DOMAIN changes : changes[i].created_at > since_iso}
        ELSE DOMAIN changes,
        limit)

\* list_changes as the list of dicts the caller gets.
list_changes(changes, since_iso, limit) ==
    {[j \in DOMAIN ids |->
         [change_type |-> changes[ids[j]].change_type,
          asset_id    |-> changes[ids[j]].asset_id,
          payload     |-> json_loads(changes[ids[j]].payload_json),
          created_at  |-> changes[ids[j]].created_at]] :
       ids \in list_changes_ids(changes, since_iso, limit)}

(***************************************************************************)
(* Inputs of the persistence-layer calls.                                  *)
(***************************************************************************)
AssetIds == {"a", "b"}
Versions == {1, 2}
Pairs == AssetIds \X Versions

EnsureInputs ==
    {[asset_id |-> "a", name |-> "n1"], [asset_id |-> "a", name |-> "n2"]}

UpsertInputs ==
    {[asset_id |-> "a", version |-> 1, metadata |-> "m1", thumbnail_path |-> ""],
     [asset_id |-> "a", version |-> 1, metadata |-> "m2", thumbnail_path |-> "t.jpg"],
     [asset_id |-> "a", version |-> 2, metadata |-> "m1", thumbnail_path |-> ""],
     [asset_id |-> "b", version |-> 1, metadata |-> "m1", thumbnail_path |-> ""]}

FileInputs ==
    {[asset_id |-> "a", version |-> 1, filename |-> "f.fbx"]}

\* "owner" is a key outside the whitelist
UpdateInputs ==
    {[asset_id |-> "a", fields |-> [status |-> "wip", owner |-> "x"]],
     [asset_id |-> "a", fields |-> [owner |-> "x"]]}

ArchiveInputs == {<<"a", 1>>}
DeleteVersionInputs == {<<"a", 1>>}

\* no call was made yet
NoRowCall ==
    [n |-> 0, op |-> "none", asset_id |-> "", version |-> 0, name |-> "", family |-> "",
     description |-> "", tags |-> "", fields |-> << >>, filename |-> "", now |-> NoneTs]

\* no request was made yet
NoRequest ==
    [n |-> 0, endpoint |-> "none", header |-> << >>, asset_id |-> "", version |-> 0,
     format |-> "", code |-> 0, body |-> << >>, zip |-> << >>, paths |-> {}, keys |-> << >>]

\* request threads, and the calls they make in SpecTxn
Procs == {"t1", "t2"}

NoCall == [op |-> "none", asset_id |-> "", version |-> 0, name |-> "", metadata |-> "",
           fields |-> << >>, filename |-> "", now |-> NoneTs, found |-> FALSE]

TxnCalls ==
    {[NoCall EXCEPT !.op = "ensure_asset", !.asset_id = "a", !.name = "n1"],
     [NoCall EXCEPT !.op = "upsert_version", !.asset_id = "a", !.version = 1,
                    !.metadata = "m1"],
     [NoCall EXCEPT !.op = "add_file", !.asset_id = "a", !.version = 1,
                    !.filename = "f.fbx"],
     [NoCall EXCEPT !.op = "update_asset", !.asset_id = "a",
                    !.fields = [status |-> "wip"]],
     [NoCall EXCEPT !.op = "archive_version", !.asset_id = "a", !.version = 1],
     [NoCall EXCEPT !.op = "delete_version", !.asset_id = "a", !.version = 1],
     [NoCall EXCEPT !.op = "delete_asset", !.asset_id = "a"],
     [NoCall EXCEPT !.op = "add_comment", !.asset_id = "a"]}

DbCalls == {"ensure_asset", "upsert_version", "add_file", "update_asset",
            "archive_version", "delete_version", "delete_asset", "add_comment"}

\* the change_type each call writes
ChangeTypeOf ==
    [ensure_asset |-> "asset_upsert", upsert_version |-> "version_upsert",
     add_file |-> "file_added", update_asset |-> "asset_update",
     archive_version |-> "version_archived", delete_version |-> "version_deleted",
     delete_asset |-> "asset_deleted", add_comment |-> "comment"]

RECURSIVE SumOver(_, _)
SumOver(f, S) ==
    IF S = {} THEN 0
    ELSE LET x == CHOOSE y \in S : TRUE IN f[x] + SumOver(f, S \ {x})

Invoked(c) == [calls EXCEPT ![c] = @ + 1]

CanCall == SumOver(calls, DbCalls) < MaxCalls

(***************************************************************************)
(* Spec: a client of the persistence layer making calls one after another. *)
(***************************************************************************)
\* the parts of the state a specification does not use, at rest
ClientIdle ==
    /\ calls = [c \in DbCalls \cup {"update_asset_nothing_allowed"} |-> 0]
    /\ lastUpsert = [p \in Pairs |-> NoUpsert]

ConsumerIdle ==
    /\ last_since = NoneTs
    /\ pageLimit = 1
    /\ seen = << >>

TxnIdle ==
    /\ pc = [p \in Procs |-> "idle"]
    /\ txn = [p \in Procs |-> NoCall]
    /\ lock = "none"
    /\ wdb = EmptyDb
    /\ committedTx = << >>
    /\ integrityErrors = {}

RowsIdle ==
    /\ call = NoRowCall
    /\ before = EmptyDb

ApiIdle ==
    /\ keyfile = <<"absent">>
    /\ fs = << >>
    /\ last = NoRequest
    /\ uploads = << >>
    /\ quota = MaxReqs

Init ==
    /\ db = EmptyDb
    /\ clock = 1
    /\ ClientIdle
    /\ ConsumerIdle
    /\ TxnIdle
    /\ RowsIdle
    /\ ApiIdle

CallEnsureAsset ==
    /\ CanCall
    /\ UNCHANGED othersOfSpec
    /\ \E in \in EnsureInputs, now \in utcnow :
          /\ db' = ensure_asset(db, now, in.asset_id, in.name, "model", "d", "t")
          /\ clock' = now
    /\ calls' = Invoked("ensure_asset")
    /\ UNCHANGED lastUpsert

CallUpsertVersion ==
    /\ CanCall
    /\ UNCHANGED othersOfSpec
    /\ \E in \in UpsertInputs, now \in utcnow :
          /\ db' = upsert_version(db, now, in.asset_id, in.version, in.metadata,
                                  in.thumbnail_path)
          /\ clock' = now
          /\ lastUpsert' = [lastUpsert EXCEPT ![<<in.asset_id, in.version>>] =
                               [metadata |-> in.metadata,
                                thumbnail_path |-> in.thumbnail_path]]
    /\ calls' = Invoked("upsert_version")

CallAddFile ==
    /\ CanCall
    /\ UNCHANGED othersOfSpec
    /\ \E in \in FileInputs, now \in utcnow :
          /\ db' = add_file(db, now, in.asset_id, in.version, in.filename,
                            <<"assets", in.asset_id, in.version, in.filename>>, "fbx", 1)
          /\ clock' = now
    /\ calls' = Invoked("add_file")
    /\ UNCHANGED lastUpsert

CallUpdateAsset ==
    /\ CanCall
    /\ UNCHANGED othersOfSpec
    /\ \E in \in UpdateInputs, now \in utcnow :
          /\ db' = update_asset(db, now, in.asset_id, in.fields)
          /\ clock' = IF db' = db THEN clock ELSE now
          /\ calls' = IF DOMAIN in.fields \cap allow = {}
                      THEN [Invoked("update_asset") EXCEPT
                               !["update_asset_nothing_allowed"] = @ + 1]
                      ELSE Invoked("update_asset")
    /\ UNCHANGED lastUpsert

CallArchiveVersion ==
    /\ CanCall
    /\ UNCHANGED othersOfSpec
    /\ \E in \in ArchiveInputs, now \in utcnow :
          /\ db' = archive_version(db, now, in[1], in[2])
          /\ clock' = now
    /\ calls' = Invoked("archive_version")
    /\ UNCHANGED lastUpsert

CallDeleteVersion ==
    /\ CanCall
    /\ UNCHANGED othersOfSpec
    /\ \E in \in DeleteVersionInputs, now \in utcnow :
          /\ db' = delete_version(db, now, in[1], in[2])
          /\ clock' = now
          /\ lastUpsert' = [lastUpsert EXCEPT ![in] = NoUpsert]
    /\ calls' = Invoked("delete_version")

CallDeleteAsset ==
    /\ CanCall
    /\ UNCHANGED othersOfSpec
    /\ \E id \in AssetIds, now \in utcnow :
          /\ db' = delete_asset(db, now, id)
          /\ clock' = now
          /\ lastUpsert' = [p \in Pairs |-> IF p[1] = id THEN NoUpsert ELSE lastUpsert[p]]
    /\ calls' = Invoked("delete_asset")

CallAddComment ==
    /\ CanCall
    /\ UNCHANGED othersOfSpec
    /\ \E now \in utcnow :
          /\ db' = add_comment(db, now, "a", "anonymous", "hello")
          /\ clock' = now
    /\ calls' = Invoked("add_comment")
    /\ UNCHANGED lastUpsert

Next ==
    \/ CallEnsureAsset
    \/ CallUpsertVersion
    \/ CallAddFile
    \/ CallUpdateAsset
    \/ CallArchiveVersion
    \/ CallDeleteVersion
    \/ CallDeleteAsset
    \/ CallAddComment

Spec == Init /\ [][Next]_vars


(***************************************************************************)
(* SpecPoll: the change log grows by calls made one after another while a  *)
(* consumer polls list_changes with its last-seen created_at as cursor     *)
(* (scripts/sync_agent.py loop(), through GET /api/changes).               *)
(***************************************************************************)
\* loop(): the cursor after a poll that returned the rows ids
next_since_first(changes, ids, since) ==
    IF ids # << >> THEN changes[ids[1]].created_at ELSE since

\* a loop() that forgets its cursor after an empty response
next_since_cleared(changes, ids, since) ==
    IF ids # << >> THEN changes[ids[Len(ids)]].created_at ELSE NoneTs

next_since(changes, ids, since) ==
    IF ids # << >> THEN changes[ids[Len(ids)]].created_at ELSE since

InitPoll ==
    /\ db = EmptyDb
    /\ clock = 1
    /\ ClientIdle
    /\ TxnIdle
    /\ RowsIdle
    /\ ApiIdle
    /\ last_since = NoneTs
    /\ pageLimit \in 1 .. MaxLimit
    /\ seen = << >>

LogAddComment ==
    /\ Len(db.changes) < MaxLog
    /\ \E now \in utcnow :
          /\ db' = add_comment(db, now, "a", "anonymous", "hello")
          /\ clock' = now
    /\ seen' = Append(seen, 0)
    /\ UNCHANGED <<othersOfPoll, last_since, pageLimit>>

LogArchiveVersion ==
    /\ Len(db.changes) < MaxLog
    /\ \E now \in utcnow :
          /\ db' = archive_version(db, now, "a", 1)
          /\ clock' = now
    /\ seen' = Append(seen, 0)
    /\ UNCHANGED <<othersOfPoll, last_since, pageLimit>>

\* one iteration of loop() whose GET /api/changes answered 200
PollOk ==
    /\ \E ids \in list_changes_ids(db.changes, last_since, pageLimit) :
          /\ last_since' = next_since(db.changes, ids, last_since)
          /\ seen' = [i \in DOMAIN seen |->
                         IF \E j \in DOMAIN ids : ids[j] = i
                         THEN Min(seen[i] + 1, MaxSeen) ELSE seen[i]]
    /\ UNCHANGED <<db, clock, othersOfPoll, pageLimit>>

\* one iteration of loop() whose request failed (code # 200): nothing changes
PollFailed == UNCHANGED vars

NextPoll == LogAddComment \/ LogArchiveVersion \/ PollOk \/ PollFailed

\* loop() polls forever; a poll that can succeed eventually does
SpecPoll == InitPoll /\ [][NextPoll]_vars /\ WF_vars(PollOk)

(***************************************************************************)
(* SpecTxn: request threads making persistence-layer calls concurrently.   *)
(* A call reads utcnow(), opens conn_rw(), runs its row statements and its *)
(* INSERT INTO changes inside one implicit transaction (the first          *)
(* INSERT/UPDATE/DELETE takes SQLite's write lock), and commits when the   *)
(* with-block ends; an exception skips the commit and close() rolls back.  *)
(* Readers (conn_ro, WAL) see the committed database db only.              *)
(***************************************************************************)
\* the call t as one transaction on d (found: what ensure_asset's SELECT saw)
TxnWhole(d, t, now) ==
    CASE t.op = "ensure_asset" ->
             ensure_asset_write(d, now, t.found, t.asset_id, t.name, "model", "d", "t")
      [] t.op = "upsert_version" ->
             upsert_version(d, now, t.asset_id, t.version, t.metadata, "")
      [] t.op = "add_file" ->
             add_file(d, now, t.asset_id, t.version, t.filename,
                      <<"assets", t.asset_id, t.version, t.filename>>, "fbx", 1)
      [] t.op = "update_asset" -> update_asset(d, now, t.asset_id, t.fields)
      [] t.op = "archive_version" -> archive_version(d, now, t.asset_id, t.version)
      [] t.op = "delete_version" -> delete_version(d, now, t.asset_id, t.version)
      [] t.op = "delete_asset" -> delete_asset(d, now, t.asset_id)
      [] t.op = "add_comment" -> add_comment(d, now, t.asset_id, "anonymous", "hello")

\* the statements of the call on the asset, version, file and comment rows
TxnRowStatements(d, t) == [TxnWhole(d, t, t.now) EXCEPT !.changes = d.changes]

\* the INSERT INTO changes that ends the call
TxnChangeStatement(w, t, now) == [w EXCEPT !.changes = TxnWhole(w, t, now).changes]

\* conn_rw(): the with-block ended normally, con.commit()
conn_rw_commit(d, w) == w

\* conn_rw() committing in its finally clause
conn_rw_commit_on_error(d, w) == w

\* conn_rw(): an exception left the with-block; con.close() without commit
conn_rw_rollback(d, w) == d

InitTxn ==
    /\ db = EmptyDb
    /\ clock = 1
    /\ ClientIdle
    /\ ConsumerIdle
    /\ TxnIdle
    /\ RowsIdle
    /\ ApiIdle

\* a thread enters a call: now = utcnow() (add_file reads it at its change row)
TxStart(p) ==
    /\ pc[p] = "idle"
    /\ Len(committedTx) + Cardinality({q \in Procs : pc[q] # "idle"}) < MaxTxns
    /\ \E c \in TxnCalls, now \in utcnow :
          /\ txn' = [txn EXCEPT ![p] =
                        [c EXCEPT !.now = IF c.op = "add_file" THEN NoneTs ELSE now]]
          /\ clock' = IF c.op = "add_file" THEN clock ELSE now
          /\ pc' = [pc EXCEPT ![p] = IF c.op = "ensure_asset" THEN "select" ELSE "rows"]
    /\ UNCHANGED <<db, lock, wdb, committedTx, integrityErrors, othersOfTxn>>

\* ensure_asset's SELECT, before any transaction is open
TxSelect(p) ==
    /\ pc[p] = "select"
    /\ txn' = [txn EXCEPT ![p].found = ensure_asset_select(db, txn[p].asset_id)]
    /\ pc' = [pc EXCEPT ![p] = "rows"]
    /\ UNCHANGED <<db, clock, lock, wdb, committedTx, integrityErrors, othersOfTxn>>

\* the first write statement takes the write lock and the row statements run;
\* ensure_asset's INSERT raises IntegrityError when the id has appeared
TxRows(p) ==
    /\ pc[p] = "rows"
    /\ lock = "none"
    /\ IF txn[p].op = "ensure_asset" /\ ensure_asset_raises(db, txn[p].found, txn[p].asset_id)
       THEN /\ db' = conn_rw_rollback(db, db)
            /\ pc' = [pc EXCEPT ![p] = "idle"]
            /\ txn' = [txn EXCEPT ![p] = NoCall]
            /\ integrityErrors' = integrityErrors \cup
                                      {[op |-> txn[p].op, asset_id |-> txn[p].asset_id]}
            /\ UNCHANGED <<lock, wdb>>
       ELSE /\ wdb' = TxnRowStatements(db, txn[p])
            /\ lock' = p
            /\ pc' = [pc EXCEPT ![p] = "change"]
            /\ UNCHANGED <<db, txn, integrityErrors>>
    /\ UNCHANGED <<clock, committedTx, othersOfTxn>>

\* the INSERT INTO changes of the call
TxChange(p) ==
    /\ pc[p] = "change"
    /\ lock = p
    /\ \E now \in IF txn[p].op = "add_file" THEN utcnow ELSE {txn[p].now} :
          /\ wdb' = TxnChangeStatement(wdb, txn[p], now)
          /\ txn' = [txn EXCEPT ![p].now = now]
          /\ clock' = IF txn[p].op = "add_file" THEN now ELSE clock
    /\ pc' = [pc EXCEPT ![p] = "commit"]
    /\ UNCHANGED <<db, lock, committedTx, integrityErrors, othersOfTxn>>

\* the with-block ends: con.commit()
TxCommit(p) ==
    /\ pc[p] = "commit"
    /\ lock = p
    /\ db' = conn_rw_commit(db, wdb)
    /\ committedTx' = Append(committedTx, txn[p])
    /\ lock' = "none"
    /\ wdb' = EmptyDb
    /\ pc' = [pc EXCEPT ![p] = "idle"]
    /\ txn' = [txn EXCEPT ![p] = NoCall]
    /\ UNCHANGED <<clock, integrityErrors, othersOfTxn>>

\* an exception inside the with-block, after some statements ran
TxFail(p) ==
    /\ pc[p] \in {"change", "commit"}
    /\ lock = p
    /\ db' = conn_rw_rollback(db, wdb)
    /\ lock' = "none"
    /\ wdb' = EmptyDb
    /\ pc' = [pc EXCEPT ![p] = "idle"]
    /\ txn' = [txn EXCEPT ![p] = NoCall]
    /\ UNCHANGED <<clock, committedTx, integrityErrors, othersOfTxn>>

\* busy_timeout expires while another thread holds the write lock:
\* OperationalError, nothing was written
TxBusy(p) ==
    /\ pc[p] = "rows"
    /\ lock \notin {"none", p}
    /\ db' = conn_rw_rollback(db, db)
    /\ pc' = [pc EXCEPT ![p] = "idle"]
    /\ txn' = [txn EXCEPT ![p] = NoCall]
    /\ UNCHANGED <<clock, lock, wdb, committedTx, integrityErrors, othersOfTxn>>

NextTxn ==
    \E p \in Procs :
        \/ TxStart(p)
        \/ TxSelect(p)
        \/ TxRows(p)
        \/ TxChange(p)
        \/ TxCommit(p)
        \/ TxFail(p)
        \/ TxBusy(p)

SpecTxn == InitTxn /\ [][NextTxn]_vars

(***************************************************************************)
(* Claims.                                                                 *)
(***************************************************************************)
ChangeRows(t) == Cardinality({i \in DOMAIN db.changes : db.changes[i].change_type = t})

\* C1 as stated: after any sequence of persistence-layer calls, for each call
\* the number of change rows of its change_type equals the number of times it
\* was invoked.
C1_RowPerInvocation ==
    \A c \in DbCalls : ChangeRows(ChangeTypeOf[c]) = calls[c]

\* C1 amended: the same, except that an update_asset invocation whose fields
\* hold no whitelisted key writes no change row.
C1_RowPerEffectiveInvocation ==
    \A c \in DbCalls :
        ChangeRows(ChangeTypeOf[c]) =
            IF c = "update_asset"
            THEN calls[c] - calls["update_asset_nothing_allowed"]
            ELSE calls[c]

C1_Witness ==
    /\ calls["update_asset"] = 2
    /\ calls["update_asset_nothing_allowed"] = 1
    /\ calls["delete_version"] = 1
    /\ db.versions = << >>

SamePair(r, p) == r.asset_id = p[1] /\ r.version = p[2]

\* C3: no two version rows share (asset_id, version), and a pair that was
\* upserted (and not deleted since) has exactly one row, holding the metadata
\* and thumbnail of the latest upsert_version call for the pair.
C3_UpsertVersionIdempotent ==
    /\ \A i, j \in DOMAIN db.versions :
          (/\ db.versions[i].asset_id = db.versions[j].asset_id
           /\ db.versions[i].version = db.versions[j].version) => i = j
    /\ \A p \in Pairs :
          lastUpsert[p] # NoUpsert =>
             /\ Cardinality({i \in DOMAIN db.versions : SamePair(db.versions[i], p)}) = 1
             /\ \A i \in DOMAIN db.versions :
                   SamePair(db.versions[i], p) =>
                      /\ json_loads(db.versions[i].metadata_json) = lastUpsert[p].metadata
                      /\ db.versions[i].thumbnail_path = lastUpsert[p].thumbnail_path

\* a pair upserted a second time, later, with another payload
C3_Witness ==
    /\ calls["upsert_version"] >= 2
    /\ \E i \in DOMAIN db.versions :
          /\ SamePair(db.versions[i], <<"a", 1>>)
          /\ db.versions[i].created_at < db.versions[i].updated_at
          /\ json_loads(db.versions[i].metadata_json) = "m2"
    /\ lastUpsert[<<"a", 1>>].metadata = "m2"

Cursors == 1 .. MaxClock
Limits == 1 .. MaxLimit

IsAscending(changes, ids) ==
    \A j, k \in DOMAIN ids :
        j < k => /\ ids[j] # ids[k]
                 /\ changes[ids[j]].created_at <= changes[ids[k]].created_at

\* C4: list_changes(since=X, limit=L) returns only records with created_at > X,
\* ascending by created_at, at most L of them (the first L of those that
\* qualify); with since omitted it returns the L records with the smallest
\* created_at.
C4_ListChangesCursor ==
    \A limit \in Limits :
       /\ \A since \in Cursors :
             \A ids \in list_changes_ids(db.changes, since, limit) :
                /\ \A j \in DOMAIN ids :
                      ids[j] \in DOMAIN db.changes /\ db.changes[ids[j]].created_at > since
                /\ IsAscending(db.changes, ids)
                /\ Len(ids) =
                      Min(limit, Cardinality({i \in DOMAIN db.changes :
                                                  db.changes[i].created_at > since}))
                /\ \A i \in DOMAIN db.changes :
                      (db.changes[i].created_at > since /\ \A j \in DOMAIN ids : ids[j] # i)
                         => \A j \in DOMAIN ids :
                               db.changes[ids[j]].created_at <= db.changes[i].created_at
       /\ \A ids \in list_changes_ids(db.changes, NoneTs, limit) :
             /\ \A j \in DOMAIN ids : ids[j] \in DOMAIN db.changes
             /\ IsAscending(db.changes, ids)
             /\ Len(ids) = Min(limit, Len(db.changes))
             /\ \A i \in DOMAIN db.changes :
                   (\A j \in DOMAIN ids : ids[j] # i)
                      => \A j \in DOMAIN ids :
                            db.changes[ids[j]].created_at <= db.changes[i].created_at
       /\ \A since \in Cursors \cup {NoneTs} :
             \A rows \in list_changes(db.changes, since, limit) :
                \E ids \in list_changes_ids(db.changes, since, limit) :
                   /\ Len(rows) = Len(ids)
                   /\ \A j \in DOMAIN rows :
                         /\ rows[j].created_at = db.changes[ids[j]].created_at
                         /\ rows[j].change_type = db.changes[ids[j]].change_type
                         /\ rows[j].asset_id = db.changes[ids[j]].asset_id

\* a log where the cursor 1 cuts off a record, two later records share a
\* timestamp and the limit truncates
C4_Witness ==
    /\ Len(db.changes) = 3
    /\ db.changes[1].created_at = 1
    /\ db.changes[2].created_at = 2
    /\ db.changes[3].created_at = 2
    /\ \E ids \in list_changes_ids(db.changes, 1, 1) : ids = <<3>>


DistinctTimestamps ==
    \A i, j \in DOMAIN db.changes :
        i # j => db.changes[i].created_at # db.changes[j].created_at

\* C5: when all change records have distinct created_at values, a consumer
\* polling with the created_at of the last row it received as the next since
\* receives no record twice and eventually receives every record, whatever
\* the log length relative to the page limit.
C5_ExactlyOnce ==
    ([]DistinctTimestamps) =>
        /\ [](\A i \in DOMAIN seen : seen[i] <= 1)
        /\ \A i \in 1 .. MaxLog : (i <= Len(db.changes)) ~> (i \in DOMAIN seen /\ seen[i] = 1)

\* a log longer than the page, all timestamps distinct, drained in several polls
C5_Witness ==
    /\ Len(db.changes) = MaxLog
    /\ Len(db.changes) > pageLimit
    /\ DistinctTimestamps
    /\ \A i \in DOMAIN seen : seen[i] = 1
    /\ last_since = db.changes[Len(db.changes)].created_at

(***************************************************************************)
(* C2: a write's row statements and its change record, as readers see them *)
(***************************************************************************)
RECURSIVE Replay(_)
\* the database after the complete statements of txs, in commit order
Replay(txs) ==
    IF txs = << >> THEN EmptyDb
    ELSE TxnWhole(Replay(SubSeq(txs, 1, Len(txs) - 1)), txs[Len(txs)], txs[Len(txs)].now)

\* the asset, version, file and comment rows of d
RowsOf(d) == <<d.assets, d.versions, d.files, d.comments>>

\* C2 as stated: in every committed state, under any interleaving of writers
\* and with writes aborting midway, a write's row mutation is visible exactly
\* when its change record is, and every visible change record comes with a
\* mutation of the asset, version, file or comment rows.
C2_MutationIffChangeRecord ==
    /\ db = Replay(committedTx)
    /\ \A k \in 1 .. Len(committedTx) :
          RowsOf(Replay(SubSeq(committedTx, 1, k))) #
              RowsOf(Replay(SubSeq(committedTx, 1, k - 1)))

\* C2 amended: in every committed state the row statements of a write and its
\* change record are visible together or not at all: the committed database is
\* the result of the complete statements of the committed writes, in commit
\* order (the row statements of a write may match no row).
C2_AllOrNothing ==
    /\ db = Replay(committedTx)
    /\ Len(db.changes) = Len(committedTx)

\* one write is committed, and a second writer has run all its statements
\* without committing: the reader sees neither its rows nor its change record
C2_Witness ==
    /\ Len(committedTx) = 1
    /\ \E p \in Procs :
          /\ pc[p] = "commit"
          /\ RowsOf(wdb) # RowsOf(db)
          /\ Len(wdb.changes) = Len(db.changes) + 1

(***************************************************************************)
(* auth.py: API keys and roles.                                            *)
(***************************************************************************)
DEFAULT_KEYS ==
    [k \in {"demo-view", "demo-edit", "demo-admin"} |->
        CASE k = "demo-view" -> "viewer"
          [] k = "demo-edit" -> "editor"
          [] k = "demo-admin" -> "admin"]

\* str(v) of a JSON value: a string is itself, null prints as "None"
str(v) == IF v[1] = "string" THEN v[2] ELSE "None"

\* the key table read once, when auth.py is imported
load_keys_at_import(file) == DEFAULT_KEYS

\* keyfile is <<"absent">>, <<"invalid">> (json.load raises) or
\* <<"json", data>>; data is <<"object", mapping>> or another JSON value
load_keys(file) ==
    IF file[1] = "json" /\ file[2][1] = "object"
    THEN [k \in DOMAIN file[2][2] |-> str(file[2][2][k])]
    ELSE DEFAULT_KEYS

\* request.headers.get(name, default): a header is << >> or <<value>>
headers_get(header, default) == IF header = << >> THEN default ELSE header[1]

\* keys.get(api_key): << >> stands for None
keys_get(keys, api_key) == IF api_key \in DOMAIN keys THEN <<keys[api_key]>> ELSE << >>

\* role_rank.get(role, default)
role_rank_get(role, default) ==
    CASE role = "viewer" -> 1
      [] role = "editor" -> 2
      [] role = "admin" -> 3
      [] OTHER -> default

\* the verdict of require_role's wrapper: 401, 403, or 0 (the handler runs)
require_role(keys, header, min_role) ==
    LET api_key == headers_get(header, "")
        role == keys_get(keys, api_key)
    IN  IF role = << >> \/ role[1] = "" THEN 401
        ELSE IF role_rank_get(role[1], 0) < role_rank_get(min_role, 1) THEN 403
        ELSE 0

\* the decorators of app.py
min_role ==
    [e \in {"upsert_asset", "upload_file", "list_assets", "asset_detail", "update_asset",
            "add_comment", "set_status", "delete_version", "delete_asset_endpoint",
            "list_changes"} |->
        CASE e \in {"list_assets", "asset_detail", "add_comment", "list_changes"} -> "viewer"
          [] e \in {"upsert_asset", "upload_file", "update_asset", "set_status"} -> "editor"
          [] e \in {"delete_version", "delete_asset_endpoint"} -> "admin"]

\* a response, with the database and the files the request leaves behind
Response(code, d, f, body, zip, paths) ==
    [code |-> code, db |-> d, fs |-> f, body |-> body, zip |-> zip, paths |-> paths]

\* a wrapper that lets the handler's effects through whatever the verdict
wrapper_then_handler(verdict, d, f, handled) ==
    IF verdict # 0
    THEN Response(verdict, handled.db, handled.fs, << >>, << >>, {})
    ELSE handled

\* require_role's wrapper around a handler: a verdict of 401 or 403 returns
\* before func is called
wrapper(verdict, d, f, handled) ==
    IF verdict # 0
    THEN Response(verdict, d, f, << >>, << >>, {})
    ELSE handled

(***************************************************************************)
(* storage.py: paths and files.  A path is the sequence of its components; *)
(* an absolute path starts with "/".  fs maps the normalised absolute path *)
(* of each file on disk to its bytes; directories are created on demand   *)
(* (os.makedirs), and the file names of the requests name no missing one.  *)
(***************************************************************************)
\* os.path.dirname(__file__) of the web_server package
HERE == <<"/", "srv", "web_server">>
ROOT == HERE \o <<"storage_root">>
ASSETS_DIR == ROOT \o <<"assets">>
THUMBS_DIR == ROOT \o <<"thumbnails">>
tmp_dir == HERE \o <<"_tmp">>

\* os.path.join(a, b)
join(a, b) == IF b # << >> /\ b[1] = "/" THEN b ELSE a \o b

RECURSIVE normpath_from(_, _)
normpath_from(done, rest) ==
    IF rest = << >> THEN done
    ELSE LET c == Head(rest)
         IN  normpath_from(
                 CASE c = "." -> done
                   [] c = ".." -> IF Len(done) > 1 THEN SubSeq(done, 1, Len(done) - 1)
                                  ELSE done
                   [] OTHER -> Append(done, c),
                 Tail(rest))

\* os.path.normpath of an absolute path (what the OS opens, without symlinks)
normpath(path) == normpath_from(<<"/">>, Tail(path))

RECURSIVE CommonPrefixLen(_, _)
CommonPrefixLen(a, b) ==
    IF a = << >> \/ b = << >> \/ Head(a) # Head(b) THEN 0
    ELSE 1 + CommonPrefixLen(Tail(a), Tail(b))

\* os.path.relpath(path, start)
relpath(path, start) ==
    LET pn == normpath(path)
        sn == normpath(start)
        i == CommonPrefixLen(pn, sn)
    IN  [k \in 1 .. (Len(sn) - i) |-> ".."] \o SubSeq(pn, i + 1, Len(pn))

\* f"v{int(version)}"
vname(version) ==
    CASE version = 0 -> "v0"
      [] version = 1 -> "v1"
      [] version = 2 -> "v2"
      [] OTHER -> "v?"

\* f"{asset_id}_v{int(version)}.jpg"
thumb_name(asset_id, version) ==
    CASE asset_id = "a" /\ version = 1 -> "a_v1.jpg"
      [] asset_id = "a" /\ version = 2 -> "a_v2.jpg"
      [] asset_id = "b" /\ version = 1 -> "b_v1.jpg"
      [] asset_id = "b" /\ version = 2 -> "b_v2.jpg"
      [] OTHER -> "?_v?.jpg"

asset_dir(asset_id, version) == ASSETS_DIR \o <<asset_id, vname(version)>>

\* is path the directory root or something below it
Inside(path, root) == Len(path) >= Len(root) /\ SubSeq(path, 1, Len(root)) = root

\* open(path, "wb").write(bytes)
write_file(f, path, bytes) ==
    [q \in DOMAIN f \cup {normpath(path)} |-> IF q = normpath(path) THEN bytes ELSE f[q]]

\* the files f keeps when the paths in gone are removed
remove_files(f, gone) == [q \in DOMAIN f \ gone |-> f[q]]

\* shutil.move(src, dst): os.rename, replacing dst
move(f, src, dst) ==
    IF normpath(src) = normpath(dst) THEN f
    ELSE remove_files(write_file(f, dst, f[normpath(src)]), {normpath(src)})

\* save_upload(asset_id, version, src_path, filename) -> (rel, size), and the files after
save_upload(f, asset_id, version, src_path, filename) ==
    LET dst == join(asset_dir(asset_id, version), filename)
        f1 == move(f, src_path, dst)
    IN  [fs |-> f1, rel |-> relpath(dst, ROOT), size |-> Len(f1[normpath(dst)]),
         dst |-> normpath(dst)]

absolute_from_rel(rel_path) == normpath(join(ROOT, rel_path))

\* shutil.rmtree(dir) when it is a directory
rmtree(f, dir) == remove_files(f, {q \in DOMAIN f : Inside(q, dir)})

\* a cleanup that removes the version directory of every asset
delete_version_storage_every_asset(f, asset_id, version) ==
    remove_files(f, {q \in DOMAIN f :
                        \/ \E other \in AssetIds :
                              Inside(q, ASSETS_DIR \o <<other, vname(version)>>)
                        \/ q = THUMBS_DIR \o <<thumb_name(asset_id, version)>>})

delete_version_storage(f, asset_id, version) ==
    remove_files(rmtree(f, ASSETS_DIR \o <<asset_id, vname(version)>>),
                 {THUMBS_DIR \o <<thumb_name(asset_id, version)>>})

delete_asset_storage(f, asset_id) ==
    remove_files(rmtree(f, ASSETS_DIR \o <<asset_id>>),
                 {q \in DOMAIN f : \E v \in Versions :
                                      q = THUMBS_DIR \o <<thumb_name(asset_id, v)>>})

\* what a storage cleanup may leave behind: rmtree(ignore_errors=True) and the
\* guarded os.remove skip what they cannot remove, and an exception ends the
\* cleanup early; any part of what was to go may still be there
cleanup_outcomes(f, cleaned) ==
    {remove_files(f, gone) : gone \in SUBSET (DOMAIN f \ DOMAIN cleaned)}

\* a handler without the try/except: an incomplete cleanup ends the request
cleanup_error_propagates(left, cleaned) == IF left = cleaned THEN "rows" ELSE "failed"

\* try: delete_..._storage(...) except Exception: pass -- where the handler
\* stands after the cleanup left the files left instead of cleaned
cleanup_error_absorbed(left, cleaned) == "rows"

(***************************************************************************)
(* app.py: the handlers, as functions of the database d and the files f.   *)
(***************************************************************************)
\* os.path.splitext(filename)[1] of the file names the requests use
splitext_ext(filename) ==
    CASE filename[Len(filename)] = "a.fbx" -> ".fbx"
      [] filename[Len(filename)] = "B.FBX" -> ".FBX"
      [] OTHER -> ""

\* s.lstrip(".")
lstrip_dot(s) ==
    CASE s = ".fbx" -> "fbx"
      [] s = ".FBX" -> "FBX"
      [] OTHER -> s

\* s.lower()
lower(s) ==
    CASE s = "FBX" -> "fbx"
      [] s = ".FBX" -> ".fbx"
      [] OTHER -> s

\* the extension of a file name, as the client wrote it
file_ext(filename) == lstrip_dot(splitext_ext(filename))

\* the format of an upload, recorded without lower()
upload_ext_as_sent(filename) == file_ext(filename)

\* os.path.splitext(file.filename)[1].lstrip(".").lower()
upload_ext(filename) == lower(lstrip_dot(splitext_ext(filename)))

\* (request.args.get("format") or "").lower().lstrip(".")
download_fmt(format) == lstrip_dot(lower(format))

\* db.get_asset(asset_id): << >> for None, else the asset with its version
\* rows (one per version number) and the list of its file rows
get_asset(d, asset_id) ==
    IF \E i \in DOMAIN d.assets : d.assets[i].id = asset_id
    THEN <<[id |-> asset_id,
            versions |-> {d.versions[i] : i \in {j \in DOMAIN d.versions :
                                                    d.versions[j].asset_id = asset_id}},
            files |-> SelectSeq(d.files, LAMBDA r : r.asset_id = asset_id)]>>
    ELSE << >>

\* a request that carries no version field
NoVersion == -1

\* int(payload.get("version") or 1): None and 0 are both falsy
payload_version(version) ==
    IF version = NoVersion \/ version = 0 THEN 1 ELSE version

\* int(request.form.get("version", "1") or 1): the form value is a string,
\* and "0" is not falsy
form_version(version) ==
    IF version = NoVersion THEN 1 ELSE version

\* POST /api/assets; version is the version field of the body, or NoVersion
upsert_asset(d, f, now1, now2, asset_id, version, metadata) ==
    IF asset_id = "" THEN Response(400, d, f, <<"error", "asset_id required">>, << >>, {})
    ELSE Response(200,
                  upsert_version(ensure_asset(d, now1, asset_id, asset_id, "unknown", "", ""),
                                 now2, asset_id, payload_version(version), metadata, ""),
                  f, <<asset_id, payload_version(version)>>, << >>, {})

\* an upload that saves the temp file before it looks at asset_id
upload_file_save_first(d, f, now, has_file, asset_id, version, filename, bytes) ==
    IF ~has_file THEN Response(400, d, f, <<"error", "file field missing">>, << >>, {})
    ELSE LET tmp_path == join(tmp_dir, filename)
             f1 == write_file(f, tmp_path, bytes)
         IN  IF asset_id = ""
             THEN Response(400, d, f1, <<"error", "asset_id required">>, << >>, {})
             ELSE LET saved == save_upload(f1, asset_id, form_version(version),
                                           tmp_path, filename)
                  IN  Response(200,
                               add_file(d, now, asset_id, form_version(version), filename,
                                        saved.rel,
                                        upload_ext(filename), saved.size),
                               saved.fs, saved.rel, << >>,
                               {[kind |-> "temp", path |-> normpath(tmp_path)],
                                [kind |-> "storage", path |-> saved.dst]})

\* POST /api/upload; version is the version form field, or NoVersion
upload_file(d, f, now, has_file, asset_id, version, filename, bytes) ==
    IF ~has_file THEN Response(400, d, f, <<"error", "file field missing">>, << >>, {})
    ELSE IF asset_id = "" THEN Response(400, d, f, <<"error", "asset_id required">>, << >>, {})
    ELSE LET tmp_path == join(tmp_dir, filename)
             saved == save_upload(write_file(f, tmp_path, bytes), asset_id,
                                  form_version(version), tmp_path, filename)
         IN  Response(200,
                      add_file(d, now, asset_id, form_version(version), filename, saved.rel,
                               upload_ext(filename), saved.size),
                      saved.fs, saved.rel, << >>,
                      {[kind |-> "temp", path |-> normpath(tmp_path)],
                       [kind |-> "storage", path |-> saved.dst]})

\* a download that answers every miss with the same 'not found'
download_file_one_404(d, f, asset_id, version, format) ==
    LET a == get_asset(d, asset_id)
        fmt == download_fmt(format)
        matching == IF a = << >> THEN {}
                    ELSE {r \in {a[1].files[i] : i \in DOMAIN a[1].files} :
                              r.version = version /\ (fmt = "" \/ r.format = fmt)}
    IN  IF matching = {} THEN {Response(404, d, f, <<"error", "not found">>, << >>, {})}
        ELSE {IF absolute_from_rel(r.rel_path) \in DOMAIN f
              THEN Response(200, d, f, f[absolute_from_rel(r.rel_path)], << >>,
                            {[kind |-> "storage", path |-> absolute_from_rel(r.rel_path)]})
              ELSE Response(500, d, f, << >>, << >>, {}) : r \in matching}

\* GET /api/assets/<asset_id>/download: the responses it may give; the file
\* rows come from a SELECT without ORDER BY, any matching row may be first
download_file(d, f, asset_id, version, format) ==
    LET a == get_asset(d, asset_id)
        fmt == download_fmt(format)
        matching == IF a = << >> THEN {}
                    ELSE {r \in {a[1].files[i] : i \in DOMAIN a[1].files} :
                              r.version = version /\ (fmt = "" \/ r.format = fmt)}
    IN  IF a = << >> THEN {Response(404, d, f, <<"error", "not found">>, << >>, {})}
        ELSE IF matching = {}
        THEN {Response(404, d, f, <<"error", "file not found for version/format">>, << >>, {})}
        ELSE {IF absolute_from_rel(r.rel_path) \in DOMAIN f
              THEN Response(200, d, f, f[absolute_from_rel(r.rel_path)], << >>,
                            {[kind |-> "storage", path |-> absolute_from_rel(r.rel_path)]})
              ELSE Response(500, d, f, << >>, << >>, {}) : r \in matching}

\* a package of every stored file of the asset, whatever its version
download_package_all_versions(d, f, asset_id, version) ==
    LET a == get_asset(d, asset_id)
    IN  IF a = << >> THEN Response(404, d, f, <<"error", "not found">>, << >>, {})
        ELSE LET rows == SelectSeq(a[1].files,
                                   LAMBDA r : absolute_from_rel(r.rel_path) \in DOMAIN f)
             IN  Response(200, d, f, << >>,
                          <<[arc_name |-> <<"metadata.json">>, bytes |-> << >>]>> \o
                          [i \in DOMAIN rows |->
                              [arc_name |-> <<"files">> \o rows[i].filename,
                               bytes |-> f[absolute_from_rel(rows[i].rel_path)]]],
                          {[kind |-> "storage", path |-> absolute_from_rel(rows[i].rel_path)] :
                               i \in DOMAIN rows})

\* GET /api/assets/<asset_id>/package
download_package(d, f, asset_id, version) ==
    LET a == get_asset(d, asset_id)
    IN  IF a = << >> THEN Response(404, d, f, <<"error", "not found">>, << >>, {})
        ELSE LET rows == SelectSeq(a[1].files,
                                   LAMBDA r : r.version = version /\
                                              absolute_from_rel(r.rel_path) \in DOMAIN f)
             IN  Response(200, d, f, << >>,
                          <<[arc_name |-> <<"metadata.json">>, bytes |-> << >>]>> \o
                          [i \in DOMAIN rows |->
                              [arc_name |-> <<"files">> \o rows[i].filename,
                               bytes |-> f[absolute_from_rel(rows[i].rel_path)]]],
                          {[kind |-> "storage", path |-> absolute_from_rel(rows[i].rel_path)] :
                               i \in DOMAIN rows})

\* PATCH /api/assets/<asset_id>
api_update_asset(d, f, now, asset_id, fields) ==
    Response(200, update_asset(d, now, asset_id, fields), f, << >>, << >>, {})

\* POST /api/assets/<asset_id>/comment
api_add_comment(d, f, now, asset_id, author, body) ==
    Response(200, add_comment(d, now, asset_id, author, body), f, << >>, << >>, {})

\* POST /api/assets/<asset_id>/status
set_status(d, f, now, asset_id, status) ==
    Response(200, update_asset(d, now, asset_id, [status |-> status]), f, << >>, << >>, {})

\* DELETE /api/assets/<asset_id>/versions/<version>
api_delete_version(d, f, now, asset_id, version) ==
    Response(200, delete_version(d, now, asset_id, version),
             delete_version_storage(f, asset_id, version), << >>, << >>, {})

\* DELETE /api/assets/<asset_id>
delete_asset_endpoint(d, f, now, asset_id) ==
    Response(200, delete_asset(d, now, asset_id), delete_asset_storage(f, asset_id),
             << >>, << >>, {})

\* GET /api/assets, GET /api/changes, GET /api/stats: handlers that read
read_only(d, f) == Response(200, d, f, << >>, << >>, {})

\* GET /api/assets/<asset_id>
asset_detail(d, f, asset_id) ==
    IF get_asset(d, asset_id) = << >>
    THEN Response(404, d, f, <<"error", "not found">>, << >>, {})
    ELSE Response(200, d, f, << >>, << >>, {})

(***************************************************************************)
(* The HTTP endpoints as actions: one request is served at a time.         *)
(***************************************************************************)
\* the handler of a gated endpoint behind its decorator
Gated(endpoint, header, handled) ==
    wrapper(require_role(load_keys(keyfile), header, min_role[endpoint]), db, fs, handled)

\* the response goes out; what the request did to the database and the files stays
Answer(endpoint, header, asset_id, version, format, out) ==
    \E o \in {out} :
        /\ db' = o.db
        /\ fs' = o.fs
        /\ clock' = IF Len(o.db.changes) > Len(db.changes)
                    THEN o.db.changes[Len(o.db.changes)].created_at
                    ELSE clock
        /\ last' = [n |-> last.n + 1, endpoint |-> endpoint, header |-> header,
                    asset_id |-> asset_id, version |-> version, format |-> format,
                    code |-> o.code, body |-> o.body, zip |-> o.zip,
                    paths |-> o.paths, keys |-> load_keys(keyfile)]
        /\ UNCHANGED <<keyfile, quota, othersOfApi>>

PostAssets(header, asset_id, version, metadata) ==
    /\ last.n < quota
    /\ \E now1 \in utcnow : \E now2 \in now1 .. Min(now1 + 1, MaxClock) :
          Answer("upsert_asset", header, asset_id, version, "",
                 Gated("upsert_asset", header,
                       upsert_asset(db, fs, now1, now2, asset_id, version, metadata)))
    /\ UNCHANGED uploads

\* what the history keeps of an upload answered 200
Uploaded(asset_id, version, filename, bytes) ==
    [asset_id |-> asset_id, version |-> version, e |-> file_ext(filename),
     filename |-> filename, bytes |-> bytes,
     dst |-> normpath(join(asset_dir(asset_id, version), filename))]

PostUpload(header, has_file, asset_id, version, filename, bytes) ==
    /\ last.n < quota
    /\ \E now \in utcnow :
           LET out == Gated("upload_file", header,
                            upload_file(db, fs, now, has_file, asset_id, version,
                                        filename, bytes))
           IN  /\ Answer("upload_file", header, asset_id, version, "", out)
               /\ uploads' = IF out.code = 200
                             THEN Append(uploads, Uploaded(asset_id, form_version(version),
                                                           filename, bytes))
                             ELSE uploads

GetAssets(header) ==
    /\ last.n < quota
    /\ Answer("list_assets", header, "", 0, "", Gated("list_assets", header, read_only(db, fs)))
    /\ UNCHANGED uploads

GetAssetDetail(header, asset_id) ==
    /\ last.n < quota
    /\ Answer("asset_detail", header, asset_id, 0, "",
              Gated("asset_detail", header, asset_detail(db, fs, asset_id)))
    /\ UNCHANGED uploads

GetDownload(header, asset_id, version, format) ==
    /\ last.n < quota
    /\ \E out \in download_file(db, fs, asset_id, version, format) :
          Answer("download_file", header, asset_id, version, format, out)
    /\ UNCHANGED uploads

GetPackage(header, asset_id, version) ==
    /\ last.n < quota
    /\ Answer("download_package", header, asset_id, version, "",
              download_package(db, fs, asset_id, version))
    /\ UNCHANGED uploads

PatchAsset(header, asset_id, fields) ==
    /\ last.n < quota
    /\ \E now \in utcnow :
          Answer("update_asset", header, asset_id, 0, "",
                 Gated("update_asset", header, api_update_asset(db, fs, now, asset_id, fields)))
    /\ UNCHANGED uploads

PostComment(header, asset_id) ==
    /\ last.n < quota
    /\ \E now \in utcnow :
          Answer("add_comment", header, asset_id, 0, "",
                 Gated("add_comment", header,
                       api_add_comment(db, fs, now, asset_id, "anonymous", "")))
    /\ UNCHANGED uploads

PostStatus(header, asset_id, status) ==
    /\ last.n < quota
    /\ \E now \in utcnow :
          Answer("set_status", header, asset_id, 0, "",
                 Gated("set_status", header, set_status(db, fs, now, asset_id, status)))
    /\ UNCHANGED uploads

DeleteVersion(header, asset_id, version) ==
    /\ last.n < quota
    /\ \E now \in utcnow :
           LET out == Gated("delete_version", header,
                            api_delete_version(db, fs, now, asset_id, version))
           IN  /\ Answer("delete_version", header, asset_id, version, "", out)
               /\ uploads' = IF out.code = 200 THEN << >> ELSE uploads

DeleteAsset(header, asset_id) ==
    /\ last.n < quota
    /\ \E now \in utcnow :
           LET out == Gated("delete_asset_endpoint", header,
                            delete_asset_endpoint(db, fs, now, asset_id))
           IN  /\ Answer("delete_asset_endpoint", header, asset_id, 0, "", out)
               /\ uploads' = IF out.code = 200 THEN << >> ELSE uploads

GetChanges(header) ==
    /\ last.n < quota
    /\ Answer("list_changes", header, "", 0, "", Gated("list_changes", header, read_only(db, fs)))
    /\ UNCHANGED uploads

GetStats(header) ==
    /\ last.n < quota
    /\ Answer("stats", header, "", 0, "", read_only(db, fs))
    /\ UNCHANGED uploads

\* the operator edits, removes or damages web_server/api_keys.json
\* (while requests are still to come)
KeyFiles ==
    {<<"absent">>, <<"invalid">>, <<"json", <<"array">>>>,
     <<"json", <<"object", << >>>>>>,
     <<"json", <<"object", [k \in {"k"} |-> <<"string", "admin">>]>>>>,
     <<"json", <<"object", [k \in {"k"} |-> <<"string", "editor">>]>>>>,
     <<"json", <<"object", [k \in {"k"} |-> <<"string", "">>]>>>>,
     <<"json", <<"object", [k \in {"k"} |-> <<"null">>]>>>>,
     <<"json", <<"object", [k \in {""} |-> <<"string", "admin">>]>>>>,
     <<"json", <<"object", [k \in {"demo-admin"} |-> <<"string", "viewer">>]>>>>}

WriteKeyFile ==
    /\ last.n < quota
    /\ keyfile' \in KeyFiles \ {keyfile}
    /\ UNCHANGED <<db, clock, fs, last, uploads, quota, othersOfApi>>

\* SpecAuth: requests with any header against a key file that changes
Headers == {<< >>, <<"demo-view">>, <<"demo-admin">>, <<"k">>}

InitAuth ==
    /\ db = EmptyDb
    /\ clock = 1
    /\ ClientIdle
    /\ ConsumerIdle
    /\ TxnIdle
    /\ RowsIdle
    /\ keyfile = <<"absent">>
    /\ fs = << >>
    /\ last = NoRequest
    /\ uploads = << >>
    /\ quota = MaxAuthReqs

NextAuth ==
    \/ WriteKeyFile
    \/ \E header \in Headers :
          \/ PostAssets(header, "a", 1, "m1")
          \/ PostUpload(header, TRUE, "a", 1, <<"a.fbx">>, <<1>>)
          \/ GetAssets(header)
          \/ GetAssetDetail(header, "a")
          \/ GetDownload(header, "a", 1, "fbx")
          \/ GetPackage(header, "a", 1)
          \/ PatchAsset(header, "a", [status |-> "wip"])
          \/ PostComment(header, "a")
          \/ PostStatus(header, "a", "approved")
          \/ DeleteVersion(header, "a", 1)
          \/ DeleteAsset(header, "a")
          \/ GetChanges(header)
          \/ GetStats(header)

SpecAuth == InitAuth /\ [][NextAuth]_vars

\* SpecStore: an admin publishes, uploads, downloads and deletes
Filenames == {<<"a.fbx">>, <<"B.FBX">>, <<"..", "..", "..", "..", "a.fbx">>}
Contents == {<<1>>, <<2, 2>>}
Formats == {"fbx", "FBX", ""}

InitStore ==
    /\ db = EmptyDb
    /\ clock = 1
    /\ ClientIdle
    /\ ConsumerIdle
    /\ TxnIdle
    /\ RowsIdle
    /\ ApiIdle

NextStore ==
    \/ PostAssets(<<"demo-admin">>, "a", 1, "m1")
    \/ \E filename \in Filenames, bytes \in Contents :
          PostUpload(<<"demo-admin">>, TRUE, "a", 1, filename, bytes)
    \/ \E format \in Formats : GetDownload(<< >>, "a", 1, format)
    \/ GetPackage(<< >>, "a", 1)
    \/ DeleteVersion(<<"demo-admin">>, "a", 1)
    \/ DeleteAsset(<<"demo-admin">>, "a")

SpecStore == InitStore /\ [][NextStore]_vars

(***************************************************************************)
(* C6 - C8: the role gate                                                  *)
(***************************************************************************)
\* the endpoints of app.py that write to the database or the storage tree
MutatingEndpoints ==
    {"upsert_asset", "upload_file", "update_asset", "add_comment", "set_status",
     "delete_version", "delete_asset_endpoint"}

Rejected(code) == code \in {401, 403}

\* C6: at a role-gated endpoint with minimum role R, a request whose key is
\* absent or not in the key table gets 401, one whose key resolves to a role
\* ranked below R gets 403, and for any other request the handler runs.
\* (A key the table maps to the empty string names no role: either refusal
\* is taken as right for it.)
C6_GateVerdict ==
    (last.endpoint \in DOMAIN min_role) =>
        LET R == role_rank_get(min_role[last.endpoint], 1)
            known == last.header # << >> /\ last.header[1] \in DOMAIN last.keys
            role == last.keys[last.header[1]]
        IN  /\ ~known => last.code = 401
            /\ known /\ role = "" => Rejected(last.code)
            /\ known /\ role # "" /\ role_rank_get(role, 0) < R => last.code = 403
            /\ known /\ role_rank_get(role, 0) >= R => ~Rejected(last.code)

\* C7: every endpoint that writes to the database or the storage tree has a
\* minimum role, only requests to gated endpoints change the database or the
\* files, and a request answered 401 or 403 changes neither.
C7_RejectedChangesNothing ==
    /\ MutatingEndpoints \subseteq DOMAIN min_role
    /\ [][last'.n # last.n =>
             /\ Rejected(last'.code) => db' = db /\ fs' = fs
             /\ (db' # db \/ fs' # fs) => last'.endpoint \in MutatingEndpoints]_vars

\* a delete by a key whose role is too low is refused while an asset exists
C7_Witness ==
    /\ last.endpoint = "delete_asset_endpoint"
    /\ last.code = 403
    /\ Len(db.assets) = 1

\* the key table in force: the object in api_keys.json, or the built-in demo
\* keys when the file is missing or holds no JSON object
TableInForce(file) ==
    IF file[1] = "json" /\ file[2][1] = "object"
    THEN [k \in DOMAIN file[2][2] |->
             IF file[2][2][k][1] = "string" THEN file[2][2][k][2] ELSE "None"]
    ELSE DEFAULT_KEYS

\* C8: each request to a gated endpoint is decided by the key table as it is
\* when the request arrives: a key that is not in it gets 401, and a request
\* passes exactly when its key is in it with a role of sufficient rank.
C8_DecidedByTableInForce ==
    [][(last'.n # last.n /\ last'.endpoint \in DOMAIN min_role) =>
          LET t == TableInForce(keyfile)
              k == IF last'.header = << >> THEN "" ELSE last'.header[1]
          IN  /\ k \notin DOMAIN t => last'.code = 401
              /\ ~Rejected(last'.code) <=>
                     (k \in DOMAIN t /\ role_rank_get(t[k], 0) >=
                                            role_rank_get(min_role[last'.endpoint], 1))]_vars

\* a built-in key was accepted, the file then defined a table without it,
\* and the next request with that key is refused
C8_Witness ==
    /\ last.n = 2
    /\ Len(db.assets) = 1
    /\ last.header = <<"demo-admin">>
    /\ last.code = 401
    /\ keyfile = <<"json", <<"object", [k \in {"k"} |-> <<"string", "admin">>]>>>>

(***************************************************************************)
(* C9, C10: upload, download and the paths they resolve                    *)
(***************************************************************************)
\* does upload u answer to the download request in last
Downloads(u) ==
    /\ last.endpoint = "download_file"
    /\ u.asset_id = last.asset_id
    /\ u.version = last.version
    /\ u.e = last.format

\* C9 as stated: a download by (asset_id, version, extension) of any file
\* uploaded since the last delete returns the bytes of that upload.
C9_RoundTrip ==
    \A i \in DOMAIN uploads :
        Downloads(uploads[i]) => last.code = 200 /\ last.body = uploads[i].bytes

\* C9 amended: the same, when the asset record exists, every file row of that
\* asset and version with the extension's format carries the uploaded file
\* name, and no later upload was stored at the same destination.
C9_RoundTripOfSoleFile ==
    \A i \in DOMAIN uploads :
        LET u == uploads[i]
        IN  (/\ Downloads(u)
             /\ \E a \in DOMAIN db.assets : db.assets[a].id = u.asset_id
             /\ \A r \in DOMAIN db.files :
                   (/\ db.files[r].asset_id = u.asset_id
                    /\ db.files[r].version = u.version
                    /\ db.files[r].format = lower(u.e))
                       => db.files[r].filename = u.filename
             /\ \A j \in DOMAIN uploads : j > i => uploads[j].dst # u.dst)
                => last.code = 200 /\ last.body = u.bytes

\* B.FBX was uploaded to an existing asset and format=FBX returned its bytes
C9_Witness ==
    /\ last.endpoint = "download_file"
    /\ last.code = 200
    /\ last.format = "FBX"
    /\ \E i \in DOMAIN uploads :
          /\ uploads[i].filename = <<"B.FBX">>
          /\ last.body = uploads[i].bytes

\* C10: every path a request resolves from a file name or a stored relative
\* path lies inside the storage root (the temp directory for the temp file),
\* a request that would resolve another path being refused before it reads or
\* writes; so no file ever exists outside the storage root.
C10_PathsConfined ==
    /\ \A t \in last.paths :
          Inside(t.path, IF t.kind = "temp" THEN tmp_dir ELSE ROOT)
    /\ \A q \in DOMAIN fs : Inside(q, ROOT)

(***************************************************************************)
(* SpecRows: one or two persistence-layer calls on a catalogue that        *)
(* earlier calls have filled; call and before keep the latest call and the *)
(* database it found.                                                      *)
(***************************************************************************)
\* the stored path of a file row of the catalogue
RowPath(asset_id, version, filename) == <<"assets", asset_id, vname(version), filename>>

\* asset a with version 1, one file and one comment
CatalogueOne ==
    add_comment(
        add_file(
            upsert_version(ensure_asset(EmptyDb, 1, "a", "n1", "model", "d0", "t0"),
                           1, "a", 1, "m1", ""),
            1, "a", 1, "f.fbx", RowPath("a", 1, "f.fbx"), "fbx", 1),
        1, "a", "ann", "hello")

\* asset a (status wip) with versions 1 and 2, asset b with version 1
CatalogueTwo ==
    add_comment(
        add_file(
            upsert_version(
                ensure_asset(
                    add_file(
                        add_file(
                            upsert_version(
                                update_asset(CatalogueOne, 1, "a", [status |-> "wip"]),
                                1, "a", 2, "m2", ""),
                            1, "a", 2, "f.fbx", RowPath("a", 2, "f.fbx"), "fbx", 1),
                        1, "a", 1, "g.obj", RowPath("a", 1, "g.obj"), "obj", 1),
                    1, "b", "n1", "rig", "d0", "t0"),
                1, "b", 1, "m1", ""),
            1, "b", 1, "f.fbx", RowPath("b", 1, "f.fbx"), "fbx", 1),
        1, "b", "bob", "hi")

Catalogues == {EmptyDb, CatalogueOne, CatalogueTwo}

\* "c" is an asset id no catalogue holds
RowAssetIds == {"a", "b", "c"}

\* "owner", "id" and "updated_at" are keys outside the whitelist
RowFields ==
    {[status |-> "held", owner |-> "x"],
     [owner |-> "x"],
     [name |-> "n9", tags |-> "t9"],
     [description |-> "d9", id |-> "z", updated_at |-> 0]}

InitRows ==
    /\ db \in Catalogues
    /\ clock = 1
    /\ ClientIdle
    /\ ConsumerIdle
    /\ TxnIdle
    /\ RowsIdle
    /\ ApiIdle

\* the call c was made at time now and left the database d
Called(c, d) ==
    /\ call.n < MaxRowCalls
    /\ call' = [c EXCEPT !.n = call.n + 1]
    /\ before' = db
    /\ db' = d
    /\ clock' = IF c.now = NoneTs THEN clock ELSE c.now
    /\ UNCHANGED othersOfRows

RowEnsureAsset ==
    \E asset_id \in RowAssetIds, now \in utcnow :
        Called([NoRowCall EXCEPT !.op = "ensure_asset", !.asset_id = asset_id,
                                 !.name = "n7", !.family = "prop",
                                 !.description = "d7", !.tags = "t7", !.now = now],
               ensure_asset(db, now, asset_id, "n7", "prop", "d7", "t7"))

RowUpsertVersion ==
    \E asset_id \in RowAssetIds, version \in Versions, now \in utcnow :
        Called([NoRowCall EXCEPT !.op = "upsert_version", !.asset_id = asset_id,
                                 !.version = version, !.now = now],
               upsert_version(db, now, asset_id, version, "m7", "t.jpg"))

RowAddFile ==
    \E asset_id \in {"a", "b"}, version \in Versions, now \in utcnow :
        Called([NoRowCall EXCEPT !.op = "add_file", !.asset_id = asset_id,
                                 !.version = version, !.filename = "f.fbx", !.now = now],
               add_file(db, now, asset_id, version, "f.fbx",
                        RowPath(asset_id, version, "f.fbx"), "fbx", 2))

RowUpdateAsset ==
    \E asset_id \in RowAssetIds, fields \in RowFields, now \in utcnow :
        Called([NoRowCall EXCEPT !.op = "update_asset", !.asset_id = asset_id,
                                 !.fields = fields,
                                 !.now = IF DOMAIN fields \cap allow = {}
                                         THEN NoneTs ELSE now],
               update_asset(db, now, asset_id, fields))

RowArchiveVersion ==
    \E asset_id \in {"a", "b"}, version \in Versions, now \in utcnow :
        Called([NoRowCall EXCEPT !.op = "archive_version", !.asset_id = asset_id,
                                 !.version = version, !.now = now],
               archive_version(db, now, asset_id, version))

RowDeleteVersion ==
    \E asset_id \in RowAssetIds, version \in Versions, now \in utcnow :
        Called([NoRowCall EXCEPT !.op = "delete_version", !.asset_id = asset_id,
                                 !.version = version, !.now = now],
               delete_version(db, now, asset_id, version))

RowDeleteAsset ==
    \E asset_id \in RowAssetIds, now \in utcnow :
        Called([NoRowCall EXCEPT !.op = "delete_asset", !.asset_id = asset_id,
                                 !.now = now],
               delete_asset(db, now, asset_id))

RowAddComment ==
    \E asset_id \in {"a", "b"}, now \in utcnow :
        Called([NoRowCall EXCEPT !.op = "add_comment", !.asset_id = asset_id,
                                 !.now = now],
               add_comment(db, now, asset_id, "cy", "note"))

NextRows ==
    \/ RowEnsureAsset
    \/ RowUpsertVersion
    \/ RowAddFile
    \/ RowUpdateAsset
    \/ RowArchiveVersion
    \/ RowDeleteVersion
    \/ RowDeleteAsset
    \/ RowAddComment

SpecRows == InitRows /\ [][NextRows]_vars

(***************************************************************************)
(* Claims about one persistence-layer call (SpecRows).                     *)
(***************************************************************************)
\* how many rows of table equal r
Occurrences(table, r) == Cardinality({i \in DOMAIN table : table[i] = r})

\* the rows of the given assets and versions are in table as often as in old
SameRowsWhere(old, table, asset_ids, versions) ==
    \A r \in {old[i] : i \in DOMAIN old} \cup {table[i] : i \in DOMAIN table} :
        (r.asset_id \in asset_ids /\ r.version \in versions)
            => Occurrences(table, r) = Occurrences(old, r)

\* C11: after delete_version(asset_id, v) no file row and no version row of
\* (asset_id, v) is left and get_asset(asset_id) lists neither version v nor
\* a file of version v; the asset rows, the comment rows, the other versions
\* of the asset with their file rows and the rows of other assets are as the
\* call found them.
C11_DeleteVersionFrame ==
    call.op = "delete_version" =>
        /\ ~HasPair(db.files, call.asset_id, call.version)
        /\ ~HasPair(db.versions, call.asset_id, call.version)
        /\ \A g \in {get_asset(db, call.asset_id)} :
              g # << >> =>
                  /\ \A r \in g[1].versions : r.version # call.version
                  /\ \A i \in DOMAIN g[1].files : g[1].files[i].version # call.version
        /\ db.assets = before.assets
        /\ db.comments = before.comments
        /\ \A t \in {"files", "versions"} :
              /\ SameRowsWhere(before[t], db[t], {call.asset_id},
                               Versions \ {call.version})
              /\ SameRowsWhere(before[t], db[t], RowAssetIds \ {call.asset_id},
                               Versions)

\* a version with files was deleted from an asset that has another version
\* with files, while another asset has rows too
C11_Witness ==
    /\ call.op = "delete_version"
    /\ HasPair(before.files, call.asset_id, call.version)
    /\ HasPair(before.versions, call.asset_id, call.version)
    /\ \E v \in Versions \ {call.version} :
          /\ HasPair(db.versions, call.asset_id, v)
          /\ HasPair(db.files, call.asset_id, v)
    /\ \E a \in RowAssetIds \ {call.asset_id}, v \in Versions :
          HasPair(db.files, a, v)
    /\ get_asset(db, call.asset_id) # << >>

\* the asset id a row belongs to: assets carry it as id, the others as asset_id
OwnerOf(r) == IF "id" \in DOMAIN r THEN r.id ELSE r.asset_id

\* the rows of the assets other than asset_id are in table as often as in old
SameRowsOfOthers(old, table, asset_id) ==
    \A r \in {old[i] : i \in DOMAIN old} \cup {table[i] : i \in DOMAIN table} :
        OwnerOf(r) # asset_id => Occurrences(table, r) = Occurrences(old, r)

\* C12: after delete_asset(asset_id) no file, version, comment or asset row
\* of the asset is left and get_asset(asset_id) finds nothing; the log is the
\* log the call found, every earlier record in place, followed by one
\* asset_deleted record; the rows of every other asset are as found.
C12_DeleteAsset ==
    call.op = "delete_asset" =>
        /\ \A t \in {"files", "versions", "comments", "assets"} :
              /\ \A i \in DOMAIN db[t] : OwnerOf(db[t][i]) # call.asset_id
              /\ SameRowsOfOthers(before[t], db[t], call.asset_id)
        /\ get_asset(db, call.asset_id) = << >>
        /\ Len(db.changes) = Len(before.changes) + 1
        /\ SubSeq(db.changes, 1, Len(before.changes)) = before.changes
        /\ db.changes[Len(db.changes)].change_type = "asset_deleted"
        /\ db.changes[Len(db.changes)].asset_id = call.asset_id

\* an asset with versions, files, comments and earlier change records was
\* deleted while another asset has rows in every table
C12_Witness ==
    /\ call.op = "delete_asset"
    /\ \A t \in {"files", "versions", "comments", "assets"} :
          /\ \E i \in DOMAIN before[t] : OwnerOf(before[t][i]) = call.asset_id
          /\ \E i \in DOMAIN db[t] : OwnerOf(db[t][i]) # call.asset_id
    /\ \E i \in DOMAIN before.changes : before.changes[i].asset_id = call.asset_id
    /\ get_asset(before, call.asset_id) # << >>

\* the asset rows of table with the given id
AssetRows(table, asset_id) == {table[i] : i \in {j \in DOMAIN table : table[j].id = asset_id}}

\* C14: ensure_asset(id, name, family, description, tags) leaves exactly one
\* asset row with that id.  When the id was absent the row holds the given
\* fields, status 'published' and both timestamps of the call; when it was
\* present the row has the new name, family and updated_at and its earlier
\* description, tags, status and created_at.  In both cases the log grows by
\* exactly one asset_upsert record of the asset, and the INSERT does not
\* raise.
C14_EnsureAsset ==
    call.op = "ensure_asset" =>
        /\ Occurrences([i \in DOMAIN db.assets |-> db.assets[i].id], call.asset_id) = 1
        /\ \A new \in AssetRows(db.assets, call.asset_id) :
              /\ new.name = call.name
              /\ new.family = call.family
              /\ new.updated_at = call.now
              /\ IF AssetRows(before.assets, call.asset_id) = {}
                 THEN /\ new.description = call.description
                      /\ new.tags = call.tags
                      /\ new.status = "published"
                      /\ new.created_at = call.now
                 ELSE \A old \in AssetRows(before.assets, call.asset_id) :
                          /\ new.description = old.description
                          /\ new.tags = old.tags
                          /\ new.status = old.status
                          /\ new.created_at = old.created_at
        /\ SameRowsOfOthers(before.assets, db.assets, call.asset_id)
        /\ Len(db.changes) = Len(before.changes) + 1
        /\ SubSeq(db.changes, 1, Len(before.changes)) = before.changes
        /\ db.changes[Len(db.changes)].change_type = "asset_upsert"
        /\ db.changes[Len(db.changes)].asset_id = call.asset_id
        /\ ~ensure_asset_raises(before, ensure_asset_select(before, call.asset_id),
                                call.asset_id)

\* ensure_asset met an asset whose description, tags, status and created_at
\* differ from what a new row would get, in a catalogue where an earlier
\* ensure_asset created an asset
C14_Witness ==
    /\ call.op = "ensure_asset"
    /\ \E old \in AssetRows(before.assets, call.asset_id) :
          /\ old.status = "wip"
          /\ old.description # call.description
          /\ old.tags # call.tags
          /\ old.name # call.name
          /\ old.created_at # call.now
    /\ \E r \in AssetRows(db.assets, "c") : r.status = "published" /\ r.description = "d7"

\* C16: update_asset(asset_id, fields) sets, in the asset's row, the columns
\* among name, description, tags and status that are keys of fields, and
\* updated_at; every other column, every other row and every other table is
\* as found, whatever other keys fields has, and one asset_update record is
\* appended.  With no whitelisted key in fields the database is exactly as
\* found: updated_at untouched, no change record.
C16_UpdateAssetFrame ==
    call.op = "update_asset" =>
        LET given == DOMAIN call.fields \cap {"name", "description", "tags", "status"}
        IN  IF given = {}
            THEN db = before
            ELSE /\ Len(db.assets) = Len(before.assets)
                 /\ \A i \in DOMAIN before.assets :
                       IF before.assets[i].id = call.asset_id
                       THEN /\ DOMAIN db.assets[i] = DOMAIN before.assets[i]
                            /\ \A k \in DOMAIN before.assets[i] :
                                  db.assets[i][k] =
                                      IF k \in given THEN call.fields[k]
                                      ELSE IF k = "updated_at" THEN call.now
                                      ELSE before.assets[i][k]
                       ELSE db.assets[i] = before.assets[i]
                 /\ db.versions = before.versions
                 /\ db.files = before.files
                 /\ db.comments = before.comments
                 /\ Len(db.changes) = Len(before.changes) + 1
                 /\ SubSeq(db.changes, 1, Len(before.changes)) = before.changes
                 /\ db.changes[Len(db.changes)].change_type = "asset_update"

\* a call whose fields hold whitelisted and other keys rewrote an asset's
\* description and left its id alone; the next call, with no whitelisted
\* key, met that asset
C16_Witness ==
    /\ call.op = "update_asset"
    /\ call.n = 2
    /\ DOMAIN call.fields = {"owner"}
    /\ \E r \in AssetRows(before.assets, call.asset_id) :
          /\ r.description = "d9"
          /\ r.updated_at = 2
    /\ Len(before.changes) > 0
    /\ before.changes[Len(before.changes)].change_type = "asset_update"
    /\ before.changes[Len(before.changes)].asset_id = call.asset_id

(***************************************************************************)
(* The change log across the calls of Spec.                                *)
(***************************************************************************)
\* C18: the change log is append-only: across every step the records of the
\* log are, in place and unmodified, the first records of the next log;
\* no call, delete_version and delete_asset included, removes or rewrites one.
C18_AppendOnly ==
    [][/\ Len(db'.changes) >= Len(db.changes)
       /\ SubSeq(db'.changes, 1, Len(db.changes)) = db.changes]_vars

\* delete_asset has emptied the catalogue and the log still holds the
\* records written for the deleted asset before its deletion
C18_Witness ==
    /\ calls["delete_asset"] > 0
    /\ Len(db.changes) = MaxCalls
    /\ db.changes[Len(db.changes)].change_type = "asset_deleted"
    /\ \E i \in DOMAIN db.changes :
          /\ db.changes[i].change_type \in {"asset_upsert", "version_upsert", "file_added"}
          /\ db.changes[i].asset_id = db.changes[Len(db.changes)].asset_id
    /\ db.assets = << >>

(***************************************************************************)
(* Concurrent ensure_asset calls (SpecTxn).                                *)
(***************************************************************************)
\* the committed calls of the given kind
CommittedCalls(op) == {i \in DOMAIN committedTx : committedTx[i].op = op}

\* C15: ensure_asset never fails on a duplicate id when calls for the same,
\* not yet existing id run concurrently: under every interleaving of their
\* SELECT and INSERT steps no call raises, at most one asset row carries the
\* id, and every call has appended its asset_upsert record.
C15_ConcurrentEnsureNeverFails ==
    /\ \A e \in integrityErrors : e.op # "ensure_asset"
    /\ \A a \in AssetIds : Occurrences([i \in DOMAIN db.assets |-> db.assets[i].id], a) <= 1
    /\ ChangeRows("asset_upsert") = Cardinality(CommittedCalls("ensure_asset"))

(***************************************************************************)
(* A server where asset a has two files under version 1 and one under      *)
(* version 2.                                                              *)
(***************************************************************************)
\* POST /api/assets for a, then three uploads, all answered before the clock moved
PublishedA == upsert_asset(EmptyDb, << >>, 1, 1, "a", 1, "m1")
PublishedFile1 == upload_file(PublishedA.db, PublishedA.fs, 1, TRUE, "a", 1, <<"a.fbx">>, <<1>>)
PublishedFile2 ==
    upload_file(PublishedFile1.db, PublishedFile1.fs, 1, TRUE, "a", 1, <<"B.FBX">>, <<2, 2>>)
PublishedFile3 ==
    upload_file(PublishedFile2.db, PublishedFile2.fs, 1, TRUE, "a", 2, <<"a.fbx">>, <<2, 2>>)

PublishedUploads ==
    <<Uploaded("a", 1, <<"a.fbx">>, <<1>>), Uploaded("a", 1, <<"B.FBX">>, <<2, 2>>),
      Uploaded("a", 2, <<"a.fbx">>, <<2, 2>>)>>

(***************************************************************************)
(* SpecThreads: the server's request threads serving POST /api/assets and  *)
(* the two DELETE routes at the same time, for clients the gate admits.    *)
(* A handler's persistence-layer calls are separate transactions; between  *)
(* two of them any other thread may run.                                   *)
(***************************************************************************)
ThreadedRequests ==
    {[NoCall EXCEPT !.op = "upsert_asset", !.asset_id = a, !.version = v, !.name = a,
                    !.metadata = "m1"] : a \in {"a"}, v \in Versions}
    \cup {[NoCall EXCEPT !.op = "delete_asset_endpoint", !.asset_id = "a"]}
    \cup {[NoCall EXCEPT !.op = "delete_version", !.asset_id = "a", !.version = v] :
             v \in Versions}

InitThreads ==
    /\ \/ db = EmptyDb /\ fs = << >> /\ uploads = << >>
       \/ db = PublishedFile3.db /\ fs = PublishedFile3.fs /\ uploads = PublishedUploads
    /\ clock = 1
    /\ ClientIdle
    /\ ConsumerIdle
    /\ TxnIdle
    /\ RowsIdle
    /\ keyfile = <<"absent">>
    /\ last = NoRequest
    /\ quota = MaxThreadedReqs

\* what the request threads leave alone
othersOfThreads ==
    <<clientVars, consumerVars, rowsVars, lock, wdb, committedTx, keyfile, uploads, quota>>

\* thread p sends its response
Responds(p, code) ==
    /\ last' = [NoRequest EXCEPT !.n = last.n + 1, !.endpoint = txn[p].op,
                                 !.asset_id = txn[p].asset_id,
                                 !.version = txn[p].version, !.code = code]
    /\ pc' = [pc EXCEPT ![p] = "idle"]
    /\ txn' = [txn EXCEPT ![p] = NoCall]

\* a request arrives and a thread takes it
ReqArrives(p) ==
    /\ last.n + Cardinality({q \in Procs : pc[q] # "idle"}) < quota
    /\ pc[p] = "idle"
    /\ \E r \in ThreadedRequests :
          /\ txn' = [txn EXCEPT ![p] = r]
          /\ pc' = [pc EXCEPT ![p] = IF r.op = "upsert_asset" THEN "select" ELSE "storage"]
    /\ UNCHANGED <<db, clock, fs, last, integrityErrors, othersOfThreads>>

\* upsert_asset: db.ensure_asset reads the clock and runs its SELECT
ReqEnsureSelect(p) ==
    /\ pc[p] = "select"
    /\ \E now \in utcnow :
          /\ txn' = [txn EXCEPT ![p].now = now,
                                ![p].found = ensure_asset_select(db, txn[p].asset_id)]
          /\ clock' = now
    /\ pc' = [pc EXCEPT ![p] = "ensure"]
    /\ UNCHANGED <<db, fs, last, integrityErrors, othersOfThreads>>

\* upsert_asset: db.ensure_asset writes and commits, or its INSERT raises and
\* the request is answered 500
ReqEnsureWrite(p) ==
    /\ pc[p] = "ensure"
    /\ IF ensure_asset_raises(db, txn[p].found, txn[p].asset_id)
       THEN /\ integrityErrors' = integrityErrors \cup
                                      {[op |-> "ensure_asset", asset_id |-> txn[p].asset_id]}
            /\ Responds(p, 500)
            /\ UNCHANGED db
       ELSE /\ db' = ensure_asset_write(db, txn[p].now, txn[p].found, txn[p].asset_id,
                                        txn[p].name, "unknown", "", "")
            /\ pc' = [pc EXCEPT ![p] = "upsert"]
            /\ UNCHANGED <<txn, last, integrityErrors>>
    /\ UNCHANGED <<clock, fs, othersOfThreads>>

\* upsert_asset: db.upsert_version, then the response
ReqUpsertVersion(p) ==
    /\ pc[p] = "upsert"
    /\ \E now \in utcnow :
          /\ db' = upsert_version(db, now, txn[p].asset_id, txn[p].version,
                                  txn[p].metadata, "")
          /\ clock' = now
    /\ Responds(p, 200)
    /\ UNCHANGED <<fs, integrityErrors, othersOfThreads>>

\* the DELETE routes: the storage cleanup comes first; whatever it removed
\* and whether or not it raised, the handler goes on
ReqDeleteStorage(p) ==
    /\ pc[p] = "storage"
    /\ \E cleaned \in {IF txn[p].op = "delete_version"
                        THEN delete_version_storage(fs, txn[p].asset_id, txn[p].version)
                        ELSE delete_asset_storage(fs, txn[p].asset_id)} :
          /\ fs' \in cleanup_outcomes(fs, cleaned)
          /\ pc' = [pc EXCEPT ![p] = cleanup_error_absorbed(fs', cleaned)]
    /\ UNCHANGED <<db, clock, txn, last, integrityErrors, othersOfThreads>>

\* the DELETE routes: db.delete_version or db.delete_asset, then the response
ReqDeleteRows(p) ==
    /\ pc[p] = "rows"
    /\ \E now \in utcnow :
          /\ db' = IF txn[p].op = "delete_version"
                   THEN delete_version(db, now, txn[p].asset_id, txn[p].version)
                   ELSE delete_asset(db, now, txn[p].asset_id)
          /\ clock' = now
    /\ Responds(p, 200)
    /\ UNCHANGED <<fs, integrityErrors, othersOfThreads>>

NextThreads ==
    \E p \in Procs :
        \/ ReqArrives(p)
        \/ ReqEnsureSelect(p)
        \/ ReqEnsureWrite(p)
        \/ ReqUpsertVersion(p)
        \/ ReqDeleteStorage(p)
        \/ ReqDeleteRows(p)

SpecThreads == InitThreads /\ [][NextThreads]_vars

\* C13: in every state reachable through the API, interleavings of
\* concurrent POST /assets and DELETE requests included, every version row's
\* asset_id is the id of an existing asset row; and delete_version, of any
\* version and so of the last remaining one, leaves the asset rows as they are.
C13_VersionsReferenceAssets ==
    /\ \A i \in DOMAIN db.versions :
          \E j \in DOMAIN db.assets : db.assets[j].id = db.versions[i].asset_id
    /\ \A a \in AssetIds, v \in Versions :
          delete_version(db, clock, a, v).assets = db.assets

(***************************************************************************)
(* Uploads, file rows and stored files (SpecStore).                        *)
(***************************************************************************)
\* the uploads answered 200 to (asset_id, version) since the last delete
UploadsTo(asset_id, version) ==
    {i \in DOMAIN uploads : uploads[i].asset_id = asset_id /\ uploads[i].version = version}

\* the files the storage tree holds for (asset_id, version)
StoredFor(asset_id, version) ==
    {q \in DOMAIN fs : Inside(q, ROOT) /\ Inside(q, asset_dir(asset_id, version))}

\* C17: every upload inserts a new file row and appends a file_added record:
\* after N uploads to the same (asset_id, version), repeated file names
\* included, the version has exactly N file rows, while the storage tree
\* holds one file per distinct file name, with the bytes of the last upload
\* of that name.
C17_RowPerUploadFilePerName ==
    /\ (last.endpoint = "upload_file" /\ last.code = 200) =>
          /\ db.changes # << >>
          /\ db.changes[Len(db.changes)].change_type = "file_added"
    /\ \A a \in AssetIds, v \in Versions :
          /\ Cardinality({i \in DOMAIN db.files :
                             db.files[i].asset_id = a /\ db.files[i].version = v})
                = Cardinality(UploadsTo(a, v))
          /\ Cardinality(StoredFor(a, v))
                = Cardinality({uploads[i].filename : i \in UploadsTo(a, v)})
          /\ \A i \in UploadsTo(a, v) :
                (\A j \in UploadsTo(a, v) : j > i => uploads[j].filename # uploads[i].filename)
                    => \E q \in StoredFor(a, v) : fs[q] = uploads[i].bytes

(***************************************************************************)
(* SpecPackage: an admin publishes, uploads to two versions, deletes       *)
(* versions and asks for packages, on an empty server or on one where      *)
(* asset a already has two files under version 1 and one under version 2.  *)
(***************************************************************************)
\* a.fbx again, and a name that climbs into the directory of version 2
PackageFilenames == {<<"a.fbx">>, <<"..", "v2", "a.fbx">>}

InitPackage ==
    /\ \/ db = EmptyDb /\ fs = << >> /\ uploads = << >>
       \/ db = PublishedFile3.db /\ fs = PublishedFile3.fs /\ uploads = PublishedUploads
    /\ clock = 1
    /\ ClientIdle
    /\ ConsumerIdle
    /\ TxnIdle
    /\ RowsIdle
    /\ keyfile = <<"absent">>
    /\ last = NoRequest
    /\ quota = MaxPackageReqs

NextPackage ==
    \/ \E asset_id \in {"a", ""} : PostAssets(<<"demo-admin">>, asset_id, 1, "m1")
    \/ \E has_file \in BOOLEAN, asset_id \in {"a", ""}, version \in Versions,
          filename \in PackageFilenames :
          PostUpload(<<"demo-admin">>, has_file, asset_id, version, filename, <<3, 3, 3>>)
    \/ \E version \in Versions : GetPackage(<< >>, "a", version)
    \/ \E version \in Versions : DeleteVersion(<<"demo-admin">>, "a", version)

SpecPackage == InitPackage /\ [][NextPackage]_vars

(***************************************************************************)
(* Packages (SpecPackage).                                                 *)
(***************************************************************************)
\* the file rows of the package request in last
PackageRows ==
    {i \in DOMAIN db.files :
        db.files[i].asset_id = last.asset_id /\ db.files[i].version = last.version}

\* those whose stored file is on disk
StoredPackageRows ==
    {i \in PackageRows : absolute_from_rel(db.files[i].rel_path) \in DOMAIN fs}

\* the archive entry of file row i
EntryOf(i) ==
    [arc_name |-> <<"files">> \o db.files[i].filename,
     bytes |-> fs[absolute_from_rel(db.files[i].rel_path)]]

\* C19 as stated: the archive of GET /assets/{id}/package?version=v holds
\* metadata.json plus exactly one entry per file row of (id, v) present at
\* request time, and nothing of another version.  (Nothing is asked of a
\* request for an id that has neither an asset record nor a file row.)
C19_EntryPerFileRow ==
    (/\ last.endpoint = "download_package"
     /\ (get_asset(db, last.asset_id) # << >> \/ PackageRows # {})) =>
        /\ last.code = 200
        /\ last.zip # << >>
        /\ last.zip[1].arc_name = <<"metadata.json">>
        /\ Len(last.zip) - 1 = Cardinality(PackageRows)
        /\ \A k \in 2 .. Len(last.zip) :
              \E i \in StoredPackageRows : last.zip[k] = EntryOf(i)

\* C19 amended: without an asset record of that id the answer is 404 and no
\* archive; otherwise the archive holds metadata.json plus exactly one entry
\* per file row of (id, v) present at request time whose stored file is on
\* disk, rows of the same file name included, and nothing of another version.
C19_EntryPerStoredFileRow ==
    last.endpoint = "download_package" =>
        IF get_asset(db, last.asset_id) = << >>
        THEN last.code = 404 /\ last.zip = << >>
        ELSE /\ last.code = 200
             /\ last.zip # << >>
             /\ last.zip[1].arc_name = <<"metadata.json">>
             /\ Len(last.zip) - 1 = Cardinality(StoredPackageRows)
             /\ \A k \in 2 .. Len(last.zip) :
                   Cardinality({j \in 2 .. Len(last.zip) : last.zip[j] = last.zip[k]})
                       = Cardinality({i \in StoredPackageRows : EntryOf(i) = last.zip[k]})

\* after two files under version 1 and one under version 2, a.fbx was
\* uploaded to version 1 again and the next package of version 1 holds three
\* entries, two of them named files/a.fbx, while version 2 keeps its file row
C19_Witness ==
    /\ last.endpoint = "download_package"
    /\ last.code = 200
    /\ last.version = 1
    /\ Len(last.zip) = 4
    /\ Cardinality({k \in 2 .. 4 : last.zip[k].arc_name = <<"files", "a.fbx">>}) = 2
    /\ HasPair(db.files, "a", 2)

\* C20: a POST /assets or POST /upload that the gate admits and whose
\* asset_id is missing or empty is answered 400 with an error body, and the
\* database with its change log and every file on disk, those of the temp
\* directory included, are after the request what they were before it.
C20_BadRequestChangesNothing ==
    [][(/\ last'.n = last.n + 1
        /\ last'.endpoint \in {"upsert_asset", "upload_file"}
        /\ last'.asset_id = ""
        /\ require_role(last'.keys, last'.header, min_role[last'.endpoint]) = 0)
           => /\ last'.code = 400
              /\ last'.body # << >>
              /\ last'.body[1] = "error"
              /\ db' = db
              /\ fs' = fs]_vars

\* an upload with a file part and no asset_id was answered 400 on a server
\* that holds rows, change records and stored files
C20_Witness ==
    /\ last.endpoint = "upload_file"
    /\ last.asset_id = ""
    /\ last.code = 400
    /\ last.body = <<"error", "asset_id required">>
    /\ db.files # << >>
    /\ db.changes # << >>
    /\ DOMAIN fs # {}

(***************************************************************************)
(* SpecReads: detail, download and package requests for known and unknown  *)
(* assets, between uploads and deletes, on an empty server or on the one   *)
(* where asset a has files under versions 1 and 2.                         *)
(***************************************************************************)
InitReads ==
    /\ \/ db = EmptyDb /\ fs = << >> /\ uploads = << >>
       \/ db = PublishedFile3.db /\ fs = PublishedFile3.fs /\ uploads = PublishedUploads
    /\ clock = 1
    /\ ClientIdle
    /\ ConsumerIdle
    /\ TxnIdle
    /\ RowsIdle
    /\ keyfile = <<"absent">>
    /\ last = NoRequest
    /\ quota = MaxReadReqs

\* "obj" is a format no upload has
ReadFormats == {"", "FBX", "obj"}

NextReads ==
    \/ PostUpload(<<"demo-admin">>, TRUE, "b", 1, <<"a.fbx">>, <<3, 3, 3>>)
    \/ \E version \in Versions : DeleteVersion(<<"demo-admin">>, "a", version)
    \/ DeleteAsset(<<"demo-admin">>, "a")
    \/ \E header \in {<< >>, <<"demo-view">>}, asset_id \in AssetIds :
          GetAssetDetail(header, asset_id)
    \/ \E asset_id \in AssetIds, version \in Versions, format \in ReadFormats :
          GetDownload(<< >>, asset_id, version, format)
    \/ \E asset_id \in AssetIds, version \in Versions : GetPackage(<< >>, asset_id, version)

SpecReads == InitReads /\ [][NextReads]_vars

\* the role gate lets the request in last through (ungated routes always)
Admitted(r) ==
    r.endpoint \in DOMAIN min_role => require_role(r.keys, r.header, min_role[r.endpoint]) = 0

\* C21: a detail, download or package request (one the gate admits) for an
\* id without an asset row is answered 404 'not found'; a download for an
\* existing asset without a file row of the requested version and format is
\* answered 404 'file not found for version/format'; in both cases the
\* database and the files are after the request what they were before.
C21_NotFound ==
    [][(/\ last'.n = last.n + 1
        /\ last'.endpoint \in {"asset_detail", "download_file", "download_package"}
        /\ Admitted(last'))
           => LET known == \E i \in DOMAIN db.assets : db.assets[i].id = last'.asset_id
                  fmt == download_fmt(last'.format)
                  hit == \E i \in DOMAIN db.files :
                            /\ db.files[i].asset_id = last'.asset_id
                            /\ db.files[i].version = last'.version
                            /\ (fmt = "" \/ db.files[i].format = fmt)
              IN  /\ ~known =>
                        /\ last'.code = 404
                        /\ last'.body = <<"error", "not found">>
                        /\ db' = db /\ fs' = fs
                  /\ (known /\ last'.endpoint = "download_file" /\ ~hit) =>
                        /\ last'.code = 404
                        /\ last'.body = <<"error", "file not found for version/format">>
                        /\ db' = db /\ fs' = fs]_vars

\* a download of format obj from asset a, which has files of version 1 but
\* none of that format, was answered with the file-not-found 404
C21_Witness ==
    /\ last.endpoint = "download_file"
    /\ last.code = 404
    /\ last.body = <<"error", "file not found for version/format">>
    /\ last.format = "obj"
    /\ get_asset(db, last.asset_id) # << >>
    /\ HasPair(db.files, last.asset_id, last.version)

(***************************************************************************)
(* The DELETE routes, step by step (SpecThreads).                          *)
(***************************************************************************)
\* the rows a DELETE request r is to remove are gone from d
DeletedFrom(d, r) ==
    IF r.op = "delete_version"
    THEN ~HasPair(d.files, r.asset_id, r.version) /\ ~HasPair(d.versions, r.asset_id, r.version)
    ELSE \A t \in {"files", "versions", "comments", "assets"} :
            \A i \in DOMAIN d[t] : OwnerOf(d[t][i]) # r.asset_id

\* C22: a DELETE request starts with the storage cleanup, and the database
\* delete is entered from the cleanup only; whatever the cleanup removed
\* (everything, nothing because nothing was there, or only a part because
\* it failed) the handler goes on to the database delete, which removes the
\* rows, logs the deletion and answers 200.
C22_CleanupThenDelete ==
    [][\A p \in Procs :
          /\ (pc[p] = "idle" /\ txn'[p].op \in {"delete_version", "delete_asset_endpoint"})
                => pc'[p] = "storage"
          /\ (pc[p] # "rows" /\ pc'[p] = "rows") => pc[p] = "storage"
          /\ (pc[p] = "storage" /\ pc'[p] # "storage")
                => pc'[p] = "rows" /\ txn'[p] = txn[p] /\ db' = db
          /\ (pc[p] = "rows" /\ pc'[p] # "rows")
                => /\ pc'[p] = "idle"
                   /\ last'.endpoint = txn[p].op
                   /\ last'.code = 200
                   /\ DeletedFrom(db', txn[p])
                   /\ Len(db'.changes) = Len(db.changes) + 1
                   /\ db'.changes[Len(db'.changes)].change_type
                         = (IF txn[p].op = "delete_version"
                            THEN "version_deleted" ELSE "asset_deleted")
                   /\ fs' = fs]_vars

\* a version was deleted and answered 200 although the cleanup left files of
\* it on disk
C22_Witness ==
    /\ last.endpoint = "delete_version"
    /\ last.code = 200
    /\ ~HasPair(db.files, last.asset_id, last.version)
    /\ \E q \in DOMAIN fs : Inside(q, asset_dir(last.asset_id, last.version))
    /\ \A p \in Procs : pc[p] = "idle"

(***************************************************************************)
(* list_assets on the catalogues of SpecRows.                              *)
(***************************************************************************)
\* "" stands for a filter that is not given
ListFilters == [family : {"", "model", "prop"}, status : {"", "published", "held"}]
ListLimits == {-1, 0, 1, 2}
ListOffsets == {-1, 0, 1}

\* the asset rows that pass the filters that are given
Matching(filters) ==
    {db.assets[i] : i \in {j \in DOMAIN db.assets :
        /\ filters.family # "" => db.assets[j].family = filters.family
        /\ filters.status # "" => db.assets[j].status = filters.status}}

\* res holds rows of Matching(filters) only, each once, newest updated_at
\* first, and none of the rows before res[j] in that order is missing but
\* the skipped ones
ListedFrom(res, filters, skipped) ==
    /\ \A j \in DOMAIN res : res[j] \in Matching(filters)
    /\ \A j, k \in DOMAIN res :
          j < k => res[j] # res[k] /\ res[j].updated_at >= res[k].updated_at
    /\ \A j \in DOMAIN res :
          Cardinality({r \in Matching(filters) : r.updated_at > res[j].updated_at})
              <= skipped + j - 1

\* how many passing assets are left after the skipped ones
LeftAfter(filters, skipped) ==
    IF Cardinality(Matching(filters)) > skipped
    THEN Cardinality(Matching(filters)) - skipped ELSE 0

\* the latest call wrote the asset row of call.asset_id and set its updated_at
WroteAsset ==
    /\ \/ call.op = "ensure_asset"
       \/ call.op = "update_asset" /\ call.now # NoneTs
    /\ AssetRows(db.assets, call.asset_id) # {}

\* C23 as stated: list_assets returns the assets that pass the given filters,
\* newest updated_at first, without the first offset of them and at most
\* limit of them; and the asset written last, when it passes, comes first.
C23_ListAssets ==
    \A filters \in ListFilters, limit \in ListLimits, offset \in ListOffsets \cap Nat :
        \A res \in list_assets(db, filters, limit, offset) :
            /\ ListedFrom(res, filters, offset)
            /\ Len(res) <= limit
            /\ Len(res) < limit => Len(res) = LeftAfter(filters, offset)
            /\ (WroteAsset /\ limit >= 1 /\ offset = 0) =>
                  \A w \in AssetRows(db.assets, call.asset_id) \cap Matching(filters) :
                      res[1] = w

\* C23 amended: the same when limit is not negative (a negative limit is no
\* limit, a negative offset is offset 0), the order among assets of equal
\* updated_at being open; the asset written last comes first when no other
\* passing asset has the same updated_at.
C23_ListAssetsUpToTies ==
    \A filters \in ListFilters, limit \in ListLimits, offset \in ListOffsets :
        \A res \in list_assets(db, filters, limit, offset) :
            LET skipped == IF offset < 0 THEN 0 ELSE offset
            IN  /\ ListedFrom(res, filters, skipped)
                /\ Len(res) = IF limit < 0 THEN LeftAfter(filters, skipped)
                              ELSE Min(limit, LeftAfter(filters, skipped))
                /\ (WroteAsset /\ limit # 0 /\ skipped = 0) =>
                      \A w \in AssetRows(db.assets, call.asset_id) \cap Matching(filters) :
                          (\A r \in Matching(filters) \ {w} : r.updated_at < w.updated_at)
                              => res[1] = w

\* asset c was just created, later than assets a and b, and a listing of
\* limit 2, offset 1 returns two assets
C23_Witness ==
    /\ call.op = "ensure_asset"
    /\ Len(db.assets) = 3
    /\ \A w \in AssetRows(db.assets, call.asset_id) :
          \A i \in DOMAIN db.assets : db.assets[i] # w => db.assets[i].updated_at < w.updated_at
    /\ \E res \in list_assets(db, [family |-> "", status |-> ""], 2, 1) :
          Len(res) = 2 /\ res[1].updated_at >= res[2].updated_at

(***************************************************************************)
(* SpecVersions: an editor posts versions and uploads with the version     *)
(* field absent, 0, 1 or 2.                                                *)
(***************************************************************************)
InitVersions ==
    /\ db = EmptyDb
    /\ fs = << >>
    /\ uploads = << >>
    /\ clock = 1
    /\ ClientIdle
    /\ ConsumerIdle
    /\ TxnIdle
    /\ RowsIdle
    /\ keyfile = <<"absent">>
    /\ last = NoRequest
    /\ quota = MaxVersionReqs

\* the version field of a request: absent, or an integer
SuppliedVersions == {NoVersion, 0, 1, 2}

NextVersions ==
    \/ \E version \in SuppliedVersions : PostAssets(<<"demo-edit">>, "a", version, "m1")
    \/ \E version \in SuppliedVersions :
          PostUpload(<<"demo-edit">>, TRUE, "a", version, <<"a.fbx">>, <<3, 3, 3>>)

SpecVersions == InitVersions /\ [][NextVersions]_vars

\* the version a request names: the supplied one, 1 when none is supplied
NamedVersion == IF last.version = NoVersion THEN 1 ELSE last.version

\* C24: POST /assets upserts the version row (asset_id, v) for the version v
\* the caller supplies, 0 included, and returns v, using 1 only when no
\* version is supplied; POST /upload with the same value files the upload
\* under the same v
C24_SuppliedVersionIsRecorded ==
    /\ (last.endpoint = "upsert_asset" /\ last.code = 200) =>
          /\ HasPair(db.versions, last.asset_id, NamedVersion)
          /\ last.body = <<last.asset_id, NamedVersion>>
    /\ (last.endpoint = "upload_file" /\ last.code = 200) =>
          /\ HasPair(db.files, last.asset_id, NamedVersion)
          /\ normpath(join(asset_dir(last.asset_id, NamedVersion), <<"a.fbx">>))
                \in DOMAIN fs

(***************************************************************************)
(* C25: the cursor of the sync agent                                       *)
(***************************************************************************)
\* C25: last_since changes only in a poll answered 200 with a non-empty item
\* list, and then becomes the created_at of the last item of that response; a
\* failed poll or an empty response leaves it unchanged, and it never moves
\* to a smaller value than it held
C25_CursorMoves ==
    [][/\ last_since' # last_since =>
             /\ db' = db
             /\ \E ids \in list_changes_ids(db.changes, last_since, pageLimit) :
                   /\ ids # << >>
                   /\ last_since' = db.changes[ids[Len(ids)]].created_at
             /\ (last_since # NoneTs => last_since' > last_since)
       /\ (seen' # seen /\ db' = db) => last_since' # last_since
       /\ (db' = db /\ list_changes_ids(db.changes, last_since, pageLimit) = {<< >>})
             => last_since' = last_since]_vars

\* the cursor stands at the newest record after several polls delivered the
\* whole log, so the next poll is answered with no items
C25_Witness ==
    /\ Len(db.changes) >= 2
    /\ db.changes[1].created_at < db.changes[Len(db.changes)].created_at
    /\ last_since = db.changes[Len(db.changes)].created_at
    /\ \A i \in DOMAIN seen : seen[i] >= 1
    /\ list_changes_ids(db.changes, last_since, pageLimit) = {<< >>}

(***************************************************************************)
(* C26: records that share a created_at value                              *)
(***************************************************************************)
\* record i was never delivered and the cursor has passed it: no later poll
\* (created_at > last_since) returns it
Skipped(i) ==
    /\ last_since # NoneTs
    /\ db.changes[i].created_at <= last_since
    /\ seen[i] = 0

\* C26: with change records of equal created_at, polling with the last-seen
\* created_at as cursor is not exactly-once: a record is skipped (in the
\* reached state C26_Witness), and a record is skipped only when it shares
\* its created_at with a record that was delivered; no record is delivered
\* twice
C26_SkippedOnlyOnTies ==
    \A i \in DOMAIN db.changes :
       /\ seen[i] <= 1
       /\ Skipped(i) =>
             \E j \in DOMAIN db.changes :
                /\ j # i
                /\ db.changes[j].created_at = db.changes[i].created_at
                /\ seen[j] = 1

\* two records of equal created_at met the end of a page: the page held the
\* one written second (and the record before them), the cursor took its
\* created_at, and the one written first is skipped for good
C26_Witness ==
    /\ pageLimit = 2
    /\ Len(db.changes) >= 3
    /\ db.changes[1].created_at < db.changes[2].created_at
    /\ db.changes[2].created_at = db.changes[3].created_at
    /\ seen[1] = 1 /\ seen[2] = 0 /\ seen[3] = 1
    /\ last_since = db.changes[3].created_at
    /\ Skipped(2)

(***************************************************************************)
(* C30: the archived flag, across one call of SpecRows                     *)
(***************************************************************************)
\* the version row (asset_id, version) of d is there and carries archived = 1
Archived(d, asset_id, version) ==
    \E i \in DOMAIN d.versions :
        /\ d.versions[i].asset_id = asset_id
        /\ d.versions[i].version = version
        /\ d.versions[i].archived = 1

\* the call named the version (asset_id, version)
Names(asset_id, version) == call.asset_id = asset_id /\ call.version = version

\* C30: the archived flag of a version is set only by archive_version; once
\* set it stays set through every later upsert_version of the same version
\* and every call on other versions; it is cleared only by the row being
\* deleted (delete_version, delete_asset), after which upsert_version creates
\* the row with archived = 0; archive_version changes no row other than the
\* named version
C30_ArchivedFlag ==
    /\ \A asset_id \in RowAssetIds, version \in Versions :
          /\ (Archived(db, asset_id, version) /\ ~Archived(before, asset_id, version)) =>
                /\ call.op = "archive_version"
                /\ Names(asset_id, version)
                /\ HasPair(before.versions, asset_id, version)
          /\ (Archived(before, asset_id, version) /\ ~Archived(db, asset_id, version)) =>
                /\ \/ call.op = "delete_version" /\ Names(asset_id, version)
                   \/ call.op = "delete_asset" /\ call.asset_id = asset_id
                /\ ~HasPair(db.versions, asset_id, version)
          /\ (call.op = "upsert_version" /\ Names(asset_id, version)
                 /\ ~HasPair(before.versions, asset_id, version)) =>
                /\ HasPair(db.versions, asset_id, version)
                /\ ~Archived(db, asset_id, version)
          /\ (call.op = "archive_version" /\ Names(asset_id, version)
                 /\ HasPair(before.versions, asset_id, version)) =>
                Archived(db, asset_id, version)
    /\ call.op = "archive_version" =>
          /\ db.assets = before.assets
          /\ db.files = before.files
          /\ db.comments = before.comments
          /\ Len(db.changes) = Len(before.changes) + 1
          /\ SubSeq(db.changes, 1, Len(before.changes)) = before.changes
          /\ Len(db.versions) = Len(before.versions)
          /\ \A i \in DOMAIN before.versions :
                IF Names(before.versions[i].asset_id, before.versions[i].version)
                THEN db.versions[i] = [before.versions[i] EXCEPT !.archived = 1,
                                                                 !.updated_at = call.now]
                ELSE db.versions[i] = before.versions[i]

\* version 1 of asset a, which has a second version, was archived and then
\* upserted again: it is still archived and carries the new metadata, and
\* version 2 is not archived
C30_Witness ==
    /\ call.n = 2
    /\ call.op = "upsert_version"
    /\ Names("a", 1)
    /\ Archived(before, "a", 1)
    /\ Archived(db, "a", 1)
    /\ HasPair(db.versions, "a", 2)
    /\ ~Archived(db, "a", 2)
    /\ \E i \in DOMAIN db.versions :
          /\ db.versions[i].asset_id = "a" /\ db.versions[i].version = 1
          /\ db.versions[i].metadata_json = json_dumps("m7")
    /\ db.changes[Len(db.changes) - 1].change_type = "version_archived"

(***************************************************************************)
(* SpecUploads: the server's request threads serving POST /api/upload,     *)
(* GET .../download and DELETE .../versions/{v} at the same time.  An      *)
(* upload is three steps: file.save to the temp path, save_upload's move   *)
(* into the storage tree, and db.add_file.                                 *)
(***************************************************************************)
\* the file part of an upload for asset_id: every client sends a file named
\* a.fbx, with its own content
SentFilename == <<"a.fbx">>

SentBytes(asset_id) == IF asset_id = "a" THEN <<7, 7>> ELSE <<8, 8, 8>>

\* the requests; an upload's file part and, after save_upload, what it
\* returned travel in fields
UploadRequests ==
    {[NoCall EXCEPT !.op = "upload_file", !.asset_id = a, !.version = 1,
                    !.fields = [bytes |-> SentBytes(a)]] : a \in AssetIds}
    \cup {[NoCall EXCEPT !.op = "delete_version", !.asset_id = "a", !.version = 1]}
    \cup {[NoCall EXCEPT !.op = "download_file", !.asset_id = "a", !.version = 1]}

InitUploads ==
    /\ \/ db = EmptyDb /\ fs = << >> /\ uploads = << >>
       \/ /\ db = PublishedFile1.db
          /\ fs = PublishedFile1.fs
          /\ uploads = SubSeq(PublishedUploads, 1, 1)
    /\ clock = 1
    /\ ClientIdle
    /\ ConsumerIdle
    /\ TxnIdle
    /\ RowsIdle
    /\ keyfile = <<"absent">>
    /\ last = NoRequest
    /\ quota = MaxUploadReqs

\* what the upload and download steps leave alone
othersOfUploads ==
    <<clientVars, consumerVars, rowsVars, lock, wdb, committedTx, keyfile, quota,
      integrityErrors>>

\* tmp_path = os.path.join(tmp_dir, file.filename)
tmp_path(filename) == join(tmp_dir, filename)

\* a request arrives and a thread takes it
UploadArrives(p) ==
    /\ last.n + Cardinality({q \in Procs : pc[q] # "idle"}) < quota
    /\ pc[p] = "idle"
    /\ \E r \in UploadRequests :
          /\ txn' = [txn EXCEPT ![p] = r]
          /\ pc' = [pc EXCEPT ![p] = CASE r.op = "upload_file" -> "save"
                                       [] r.op = "download_file" -> "download"
                                       [] OTHER -> "storage"]
    /\ UNCHANGED <<db, clock, fs, last, uploads, othersOfUploads>>

\* upload_file: file.save(tmp_path)
ReqSaveTemp(p) ==
    /\ pc[p] = "save"
    /\ fs' = write_file(fs, tmp_path(SentFilename), txn[p].fields.bytes)
    /\ pc' = [pc EXCEPT ![p] = "move"]
    /\ UNCHANGED <<db, clock, txn, last, uploads, othersOfUploads>>

\* upload_file: save_upload moves the temp file and takes its size; with the
\* temp file gone shutil.move raises and the request is answered 500
ReqSaveUpload(p) ==
    /\ pc[p] = "move"
    /\ IF normpath(tmp_path(SentFilename)) \in DOMAIN fs
       THEN \E saved \in {save_upload(fs, txn[p].asset_id, txn[p].version,
                                      tmp_path(SentFilename), SentFilename)} :
               /\ fs' = saved.fs
               /\ txn' = [txn EXCEPT ![p].fields = [bytes |-> @.bytes,
                                                    rel_path |-> saved.rel,
                                                    size |-> saved.size]]
               /\ pc' = [pc EXCEPT ![p] = "add"]
               /\ UNCHANGED last
       ELSE /\ Responds(p, 500)
            /\ UNCHANGED fs
    /\ UNCHANGED <<db, clock, uploads, othersOfUploads>>

\* upload_file: db.add_file, then the response
ReqAddFile(p) ==
    /\ pc[p] = "add"
    /\ \E now \in utcnow :
          /\ db' = add_file(db, now, txn[p].asset_id, txn[p].version, SentFilename,
                            txn[p].fields.rel_path, upload_ext(SentFilename),
                            txn[p].fields.size)
          /\ clock' = now
    /\ uploads' = Append(uploads, Uploaded(txn[p].asset_id, txn[p].version,
                                           SentFilename, txn[p].fields.bytes))
    /\ Responds(p, 200)
    /\ UNCHANGED <<fs, othersOfUploads>>

\* download_file: get_asset, then send_file of the first matching row
ReqDownload(p) ==
    /\ pc[p] = "download"
    /\ \E out \in download_file(db, fs, txn[p].asset_id, txn[p].version, "") :
          last' = [NoRequest EXCEPT !.n = last.n + 1, !.endpoint = txn[p].op,
                                    !.asset_id = txn[p].asset_id,
                                    !.version = txn[p].version,
                                    !.code = out.code, !.body = out.body]
    /\ pc' = [pc EXCEPT ![p] = "idle"]
    /\ txn' = [txn EXCEPT ![p] = NoCall]
    /\ UNCHANGED <<db, clock, fs, uploads, othersOfUploads>>

NextUploads ==
    \E p \in Procs :
        \/ UploadArrives(p)
        \/ ReqSaveTemp(p)
        \/ ReqSaveUpload(p)
        \/ ReqAddFile(p)
        \/ ReqDownload(p)
        \/ ReqDeleteStorage(p)
        \/ ReqDeleteRows(p)

SpecUploads == InitUploads /\ [][NextUploads]_vars

(***************************************************************************)
(* C29: two uploads of one file name for different assets                  *)
(***************************************************************************)
\* the requests the server has taken so far
Arrived == last.n + Cardinality({q \in Procs : pc[q] # "idle"})

\* an upload for asset_id is being served, or was answered 200
UploadFor(asset_id) ==
    \/ \E q \in Procs : txn[q].op = "upload_file" /\ txn[q].asset_id = asset_id
    \/ \E i \in DOMAIN uploads :
          uploads[i].asset_id = asset_id /\ uploads[i].bytes = SentBytes(asset_id)

\* the server has taken two requests, both uploads, for different assets, and
\* has just answered one of them
AnsweredOneOfTwoUploads ==
    /\ Arrived = 2
    /\ last.endpoint = "upload_file"
    /\ \E other \in AssetIds \ {last.asset_id} : UploadFor(other)

\* C29: two POST /upload requests running at the same time for different
\* assets with the same file name each end with their own bytes under their
\* own asset directory and their own file row, whatever the interleaving of
\* their steps: neither stores the other's content and neither fails
C29_ConcurrentUploadsKeepTheirOwn ==
    AnsweredOneOfTwoUploads =>
        /\ last.code = 200
        /\ LET dst == normpath(join(asset_dir(last.asset_id, last.version), SentFilename))
           IN  /\ dst \in DOMAIN fs
               /\ fs[dst] = SentBytes(last.asset_id)
        /\ \E i \in DOMAIN db.files :
              /\ db.files[i].asset_id = last.asset_id
              /\ db.files[i].version = last.version
              /\ db.files[i].size_bytes = Len(SentBytes(last.asset_id))

(***************************************************************************)
(* C27: file rows and stored bytes                                         *)
(***************************************************************************)
\* file row i refers to bytes the storage tree does not hold
Dangling(i) == absolute_from_rel(db.files[i].rel_path) \notin DOMAIN fs

\* the storage tree holds bytes at path that no file row refers to
Orphan(path) ==
    /\ path \in DOMAIN fs
    /\ Inside(path, ASSETS_DIR)
    /\ \A i \in DOMAIN db.files : absolute_from_rel(db.files[i].rel_path) # path

\* DELETE .../versions/{version} of asset_id has run its storage cleanup:
\* its thread stands before the database delete, or the delete is logged
CleanupRan(asset_id, version) ==
    \/ \E q \in Procs : /\ pc[q] = "rows"
                        /\ txn[q].op = "delete_version"
                        /\ txn[q].asset_id = asset_id
                        /\ txn[q].version = version
    \/ \E k \in DOMAIN db.changes :
          /\ db.changes[k].change_type = "version_deleted"
          /\ db.changes[k].asset_id = asset_id
          /\ json_loads(db.changes[k].payload_json).version = version

\* an upload has moved its file to path and not yet added its row
MovedNotAdded(path) ==
    \E q \in Procs :
       /\ pc[q] = "add"
       /\ path = normpath(join(asset_dir(txn[q].asset_id, txn[q].version), SentFilename))

\* C27: storage and database are not updated atomically: no step changes the
\* file rows and the stored bytes together, so there is a reachable state
\* with a dangling row (a download running between the storage cleanup and
\* the database delete of the same version finds one) and one with an orphan
\* file (both in C27_Witness); a dangling row exists only for a version whose
\* delete has run its cleanup, an orphan file only for such a version or
\* while an upload stands between its move and its add_file
C27_NotAtomic ==
    /\ [][db'.files = db.files \/ fs' = fs]_vars
    /\ [](/\ \A i \in DOMAIN db.files :
                Dangling(i) => CleanupRan(db.files[i].asset_id, db.files[i].version)
          /\ \A path \in DOMAIN fs :
                Orphan(path) =>
                   \/ MovedNotAdded(path)
                   \/ \E asset_id \in AssetIds, version \in Versions :
                         /\ Inside(path, asset_dir(asset_id, version))
                         /\ CleanupRan(asset_id, version))

\* a download was answered 500 for a row of version 1 of asset a whose bytes
\* the cleanup of a delete has removed while the delete has not reached the
\* database, and the file of an upload for asset b is stored without a row
C27_Witness ==
    /\ last.endpoint = "download_file"
    /\ last.code = 500
    /\ \E q \in Procs : pc[q] = "rows" /\ txn[q].op = "delete_version"
    /\ \E i \in DOMAIN db.files :
          /\ db.files[i].asset_id = "a"
          /\ db.files[i].version = 1
          /\ Dangling(i)
    /\ \E path \in DOMAIN fs :
          /\ Orphan(path)
          /\ Inside(path, asset_dir("b", 1))
          /\ fs[path] = SentBytes("b")

(***************************************************************************)
(* SpecFeed: request threads write through the database's write lock while *)
(* a sync agent polls GET /api/changes with its cursor.  A reader sees the *)
(* committed database only.                                                *)
(***************************************************************************)
\* the calls the writers make
FeedCalls == {c \in TxnCalls : c.op \in {"upsert_version", "add_comment"}}

InitFeed ==
    /\ db = EmptyDb
    /\ clock = 1
    /\ ClientIdle
    /\ TxnIdle
    /\ RowsIdle
    /\ ApiIdle
    /\ last_since = NoneTs
    /\ pageLimit \in 1 .. MaxLimit
    /\ seen = << >>

\* a thread enters a call: now = utcnow(), before any statement runs
FeedStart(p) ==
    /\ pc[p] = "idle"
    /\ Len(committedTx) + Cardinality({q \in Procs : pc[q] # "idle"}) < MaxTxns
    /\ \E c \in FeedCalls, now \in utcnow :
          /\ txn' = [txn EXCEPT ![p] = [c EXCEPT !.now = now]]
          /\ clock' = now
    /\ pc' = [pc EXCEPT ![p] = "rows"]
    /\ UNCHANGED <<db, lock, wdb, committedTx, integrityErrors, othersOfTxn>>

\* how often record i was delivered
Delivered(i) == IF i \in DOMAIN seen THEN seen[i] ELSE 0

\* one iteration of loop() whose GET /api/changes answered 200; seen then
\* covers the records that were committed when the poll ran
FeedPoll ==
    /\ \E ids \in list_changes_ids(db.changes, last_since, pageLimit) :
          /\ last_since' = next_since(db.changes, ids, last_since)
          /\ seen' = [i \in DOMAIN db.changes |->
                         IF \E j \in DOMAIN ids : ids[j] = i
                         THEN Min(Delivered(i) + 1, MaxSeen) ELSE Delivered(i)]
    /\ UNCHANGED <<db, clock, othersOfPoll, pageLimit>>

NextFeed ==
    \/ \E p \in Procs :
          \/ FeedStart(p)
          \/ TxRows(p)
          \/ TxChange(p)
          \/ TxCommit(p)
          \/ TxFail(p)
          \/ TxBusy(p)
    \/ FeedPoll

\* loop() polls forever; a poll that can succeed eventually does
SpecFeed == InitFeed /\ [][NextFeed]_vars /\ WF_vars(FeedPoll)

\* C28: with writers running at the same time, no change record becomes
\* visible with a created_at smaller than or equal to a cursor the consumer
\* already obtained from an earlier poll (so every committed record is
\* eventually delivered): the records committed since the last poll all lie
\* beyond the cursor
C28_NothingAppearsBehindCursor ==
    \A i \in DOMAIN db.changes \ DOMAIN seen :
        last_since # NoneTs => db.changes[i].created_at > last_since

====
